---- MODULE Spec2Model ----
(***************************************************************************)
(* The diagram codecs (Simple, Complex, Animate), the entropy derivation   *)
(* and the mnemonic codec of artimonist-core, as a state machine over pure *)
(* byte-level functions.  Bytes are naturals in 0..255, byte strings are   *)
(* sequences of bytes, characters are Unicode scalar values (naturals).    *)
(***************************************************************************)
EXTENDS Integers, Sequences, FiniteSets, TLC

(***************************************************************************)
(* SHA-256 (bitcoin::hashes::sha256::Hash::hash), computed on 32-bit words *)
(* kept as <<high 16 bits, low 16 bits>>.                                  *)
(***************************************************************************)
Xor4 == <<
    <<0, 1, 2, 3, 4, 5, 6, 7, 8, 9, 10, 11, 12, 13, 14, 15>>,
    <<1, 0, 3, 2, 5, 4, 7, 6, 9, 8, 11, 10, 13, 12, 15, 14>>,
    <<2, 3, 0, 1, 6, 7, 4, 5, 10, 11, 8, 9, 14, 15, 12, 13>>,
    <<3, 2, 1, 0, 7, 6, 5, 4, 11, 10, 9, 8, 15, 14, 13, 12>>,
    <<4, 5, 6, 7, 0, 1, 2, 3, 12, 13, 14, 15, 8, 9, 10, 11>>,
    <<5, 4, 7, 6, 1, 0, 3, 2, 13, 12, 15, 14, 9, 8, 11, 10>>,
    <<6, 7, 4, 5, 2, 3, 0, 1, 14, 15, 12, 13, 10, 11, 8, 9>>,
    <<7, 6, 5, 4, 3, 2, 1, 0, 15, 14, 13, 12, 11, 10, 9, 8>>,
    <<8, 9, 10, 11, 12, 13, 14, 15, 0, 1, 2, 3, 4, 5, 6, 7>>,
    <<9, 8, 11, 10, 13, 12, 15, 14, 1, 0, 3, 2, 5, 4, 7, 6>>,
    <<10, 11, 8, 9, 14, 15, 12, 13, 2, 3, 0, 1, 6, 7, 4, 5>>,
    <<11, 10, 9, 8, 15, 14, 13, 12, 3, 2, 1, 0, 7, 6, 5, 4>>,
    <<12, 13, 14, 15, 8, 9, 10, 11, 4, 5, 6, 7, 0, 1, 2, 3>>,
    <<13, 12, 15, 14, 9, 8, 11, 10, 5, 4, 7, 6, 1, 0, 3, 2>>,
    <<14, 15, 12, 13, 10, 11, 8, 9, 6, 7, 4, 5, 2, 3, 0, 1>>,
    <<15, 14, 13, 12, 11, 10, 9, 8, 7, 6, 5, 4, 3, 2, 1, 0>>
>>

And4 == <<
    <<0, 0, 0, 0, 0, 0, 0, 0, 0, 0, 0, 0, 0, 0, 0, 0>>,
    <<0, 1, 0, 1, 0, 1, 0, 1, 0, 1, 0, 1, 0, 1, 0, 1>>,
    <<0, 0, 2, 2, 0, 0, 2, 2, 0, 0, 2, 2, 0, 0, 2, 2>>,
    <<0, 1, 2, 3, 0, 1, 2, 3, 0, 1, 2, 3, 0, 1, 2, 3>>,
    <<0, 0, 0, 0, 4, 4, 4, 4, 0, 0, 0, 0, 4, 4, 4, 4>>,
    <<0, 1, 0, 1, 4, 5, 4, 5, 0, 1, 0, 1, 4, 5, 4, 5>>,
    <<0, 0, 2, 2, 4, 4, 6, 6, 0, 0, 2, 2, 4, 4, 6, 6>>,
    <<0, 1, 2, 3, 4, 5, 6, 7, 0, 1, 2, 3, 4, 5, 6, 7>>,
    <<0, 0, 0, 0, 0, 0, 0, 0, 8, 8, 8, 8, 8, 8, 8, 8>>,
    <<0, 1, 0, 1, 0, 1, 0, 1, 8, 9, 8, 9, 8, 9, 8, 9>>,
    <<0, 0, 2, 2, 0, 0, 2, 2, 8, 8, 10, 10, 8, 8, 10, 10>>,
    <<0, 1, 2, 3, 0, 1, 2, 3, 8, 9, 10, 11, 8, 9, 10, 11>>,
    <<0, 0, 0, 0, 4, 4, 4, 4, 8, 8, 8, 8, 12, 12, 12, 12>>,
    <<0, 1, 0, 1, 4, 5, 4, 5, 8, 9, 8, 9, 12, 13, 12, 13>>,
    <<0, 0, 2, 2, 4, 4, 6, 6, 8, 8, 10, 10, 12, 12, 14, 14>>,
    <<0, 1, 2, 3, 4, 5, 6, 7, 8, 9, 10, 11, 12, 13, 14, 15>>
>>

Xor16(x, y) ==
      4096 * Xor4[(x \div 4096) + 1][(y \div 4096) + 1]
    + 256 * Xor4[((x \div 256) % 16) + 1][((y \div 256) % 16) + 1]
    + 16 * Xor4[((x \div 16) % 16) + 1][((y \div 16) % 16) + 1]
    + Xor4[(x % 16) + 1][(y % 16) + 1]

And16(x, y) ==
      4096 * And4[(x \div 4096) + 1][(y \div 4096) + 1]
    + 256 * And4[((x \div 256) % 16) + 1][((y \div 256) % 16) + 1]
    + 16 * And4[((x \div 16) % 16) + 1][((y \div 16) % 16) + 1]
    + And4[(x % 16) + 1][(y % 16) + 1]

\* x XOR y XOR z on 16 bits
Xor16x3(x, y, z) ==
      4096 * Xor4[Xor4[(x \div 4096) + 1][(y \div 4096) + 1] + 1][(z \div 4096) + 1]
    + 256 * Xor4[Xor4[((x \div 256) % 16) + 1][((y \div 256) % 16) + 1] + 1][((z \div 256) % 16) + 1]
    + 16 * Xor4[Xor4[((x \div 16) % 16) + 1][((y \div 16) % 16) + 1] + 1][((z \div 16) % 16) + 1]
    + Xor4[Xor4[(x % 16) + 1][(y % 16) + 1] + 1][(z % 16) + 1]

WXor3(a, b, c) == <<Xor16x3(a[1], b[1], c[1]), Xor16x3(a[2], b[2], c[2])>>

WXor(a, b) == <<Xor16(a[1], b[1]), Xor16(a[2], b[2])>>

WAnd(a, b) == <<And16(a[1], b[1]), And16(a[2], b[2])>>

WNot(a) == <<65535 - a[1], 65535 - a[2]>>

WAdd(a, b) ==
    LET lo == a[2] + b[2]
        hi == a[1] + b[1] + (lo \div 65536)
    IN  <<hi % 65536, lo % 65536>>

\* rotate right by n bits, 0 < n < 32
RotR(a, n) ==
    LET h == IF n >= 16 THEN a[2] ELSE a[1]
        l == IF n >= 16 THEN a[1] ELSE a[2]
        k == IF n >= 16 THEN n - 16 ELSE n
    IN  IF k = 0 THEN <<h, l>>
        ELSE <<(h \div (2^k)) + (l % (2^k)) * (2^(16 - k)),
               (l \div (2^k)) + (h % (2^k)) * (2^(16 - k))>>

\* logical shift right by n bits, 0 < n < 16
ShR(a, n) ==
    <<a[1] \div (2^n), (a[2] \div (2^n)) + (a[1] % (2^n)) * (2^(16 - n))>>

ShaK == <<
    <<17034, 12184>>, <<28983, 17553>>, <<46528, 64463>>, <<59829, 56229>>,
    <<14678, 49755>>, <<23025, 4593>>, <<37439, 33444>>, <<43804, 24277>>,
    <<55303, 43672>>, <<4739, 23297>>, <<9265, 34238>>, <<21772, 32195>>,
    <<29374, 23924>>, <<32990, 45566>>, <<39900, 1703>>, <<49563, 61812>>,
    <<58523, 27073>>, <<61374, 18310>>, <<4033, 40390>>, <<9228, 41420>>,
    <<11753, 11375>>, <<19060, 33962>>, <<23728, 43484>>, <<30457, 35034>>,
    <<38974, 20818>>, <<43057, 50797>>, <<45059, 10184>>, <<48985, 32711>>,
    <<50912, 3059>>, <<54695, 37191>>, <<1738, 25425>>, <<5161, 10599>>,
    <<10167, 2693>>, <<11803, 8504>>, <<19756, 28156>>, <<21304, 3347>>,
    <<25866, 29524>>, <<30314, 2747>>, <<33218, 51502>>, <<37490, 11397>>,
    <<41663, 59553>>, <<43034, 26187>>, <<49739, 35696>>, <<51052, 20899>>,
    <<53650, 59417>>, <<54937, 1572>>, <<62478, 13701>>, <<4202, 41072>>,
    <<6564, 49430>>, <<7735, 27656>>, <<10056, 30540>>, <<13488, 48309>>,
    <<14620, 3251>>, <<20184, 43594>>, <<23452, 51791>>, <<26670, 28659>>,
    <<29839, 33518>>, <<30885, 25455>>, <<33992, 30740>>, <<36039, 520>>,
    <<37054, 65530>>, <<42064, 27883>>, <<48889, 41975>>, <<50801, 30962>>
>>

ShaH0 == <<
    <<27145, 58983>>, <<47975, 44677>>, <<15470, 62322>>, <<42319, 62778>>,
    <<20750, 21119>>, <<39685, 26764>>, <<8067, 55723>>, <<23520, 52505>>
>>

\* message padding: 0x80, zeros up to 56 mod 64, the bit length as 64 bits
ShaPad(m) ==
    LET n    == Len(m)
        z    == (119 - n) % 64
        bits == 8 * n
    IN  m \o <<128>> \o [i \in 1..z |-> 0] \o <<0, 0, 0, 0>>
          \o <<(bits \div 16777216) % 256, (bits \div 65536) % 256,
               (bits \div 256) % 256, bits % 256>>

\* the sixteen big-endian words of block b (from 0) of the padded message
ShaBlock(p, b) ==
    <<>> \o [i \in 1..16 |->
        LET o == 64 * b + 4 * (i - 1)
        IN  <<256 * p[o + 1] + p[o + 2], 256 * p[o + 3] + p[o + 4]>>]

\* the term that extends the message schedule:
\* w[i-16] + s0(w[i-15]) + w[i-7] + s1(w[i-2])
ShaMix(a, x, c, y) ==
    WAdd(WAdd(a, WXor3(RotR(x, 7), RotR(x, 18), ShR(x, 3))),
         WAdd(c, WXor3(RotR(y, 17), RotR(y, 19), ShR(y, 10))))

\* the message schedule extended by k more words, in eight nearly equal parts;
\* each part is evaluated before the next is started
RECURSIVE ShaExtend(_, _)
ShaExtend(w, k) ==
    IF k = 0 THEN w
    ELSE IF k = 1
    THEN Append(w, ShaMix(w[Len(w) - 15], w[Len(w) - 14], w[Len(w) - 6], w[Len(w) - 1]))
    ELSE LET w1 == ShaExtend(w, (k + 7) \div 8)
             w2 == ShaExtend(w1, (k + 6) \div 8)
             w3 == ShaExtend(w2, (k + 5) \div 8)
             w4 == ShaExtend(w3, (k + 4) \div 8)
             w5 == ShaExtend(w4, (k + 3) \div 8)
             w6 == ShaExtend(w5, (k + 2) \div 8)
             w7 == ShaExtend(w6, (k + 1) \div 8)
         IN  IF /\ Len(w1) > 0
                /\ Len(w2) > 0
                /\ Len(w3) > 0
                /\ Len(w4) > 0
                /\ Len(w5) > 0
                /\ Len(w6) > 0
                /\ Len(w7) > 0
             THEN ShaExtend(w7, k \div 8)
             ELSE w

\* the 64-word message schedule of a 16-word block
ShaSchedule(w) == ShaExtend(w, 48)

\* h + S1(e) + Ch(e, f, g) + k + x
ShaT1(e, f, g, h, k, x) ==
    WAdd(WAdd(WAdd(h, WXor3(RotR(e, 6), RotR(e, 11), RotR(e, 25))),
              WAdd(WXor(WAnd(e, f), WAnd(WNot(e), g)), k)), x)

\* S0(a) + Maj(a, b, c)
ShaT2(a, b, c) ==
    WAdd(WXor3(RotR(a, 2), RotR(a, 13), RotR(a, 22)),
         WXor3(WAnd(a, b), WAnd(a, c), WAnd(b, c)))

ShaRoundT(s, t1, t2) ==
    <<WAdd(t1, t2), s[1], s[2], s[3], WAdd(s[4], t1), s[5], s[6], s[7]>>

\* one round of the compression function on state s = <<a,b,c,d,e,f,g,h>>
ShaRound(s, k, x) ==
    LET t1 == ShaT1(s[5], s[6], s[7], s[8], k, x)
        t2 == ShaT2(s[1], s[2], s[3])
    IN  IF t1[1] >= 0 /\ t2[1] >= 0 THEN ShaRoundT(s, t1, t2) ELSE s

\* the n rounds from round i on (n = 1 or a multiple of 8); each eighth is
\* evaluated before the next is started
RECURSIVE ShaRounds(_, _, _, _)
ShaRounds(s, w, i, n) ==
    IF n = 1 THEN ShaRound(s, ShaK[i], w[i])
    ELSE LET q  == n \div 8
             s1 == ShaRounds(s, w, i, q)
             s2 == ShaRounds(s1, w, i + q, q)
             s3 == ShaRounds(s2, w, i + 2 * q, q)
             s4 == ShaRounds(s3, w, i + 3 * q, q)
             s5 == ShaRounds(s4, w, i + 4 * q, q)
             s6 == ShaRounds(s5, w, i + 5 * q, q)
             s7 == ShaRounds(s6, w, i + 6 * q, q)
         IN  IF /\ s1[1][1] >= 0
                /\ s2[1][1] >= 0
                /\ s3[1][1] >= 0
                /\ s4[1][1] >= 0
                /\ s5[1][1] >= 0
                /\ s6[1][1] >= 0
                /\ s7[1][1] >= 0
             THEN ShaRounds(s7, w, i + 7 * q, q)
             ELSE s

\* the compression function on block b (from 0) of the padded message; the
\* schedule is evaluated before the rounds are started
ShaCompress(h, p, b) ==
    LET w == ShaSchedule(ShaBlock(p, b))
    IN  IF Len(w) = 64 THEN ShaRounds(h, w, 1, 64) ELSE h

RECURSIVE ShaBlocks(_, _, _)
ShaBlocks(h, p, b) ==
    IF 64 * b >= Len(p) THEN h
    ELSE LET r == ShaCompress(h, p, b)
         IN  ShaBlocks(<<WAdd(h[1], r[1]), WAdd(h[2], r[2]), WAdd(h[3], r[3]), WAdd(h[4], r[4]),
                         WAdd(h[5], r[5]), WAdd(h[6], r[6]), WAdd(h[7], r[7]), WAdd(h[8], r[8])>>, p, b + 1)

\* the 32 bytes of the digest
Sha256(m) ==
    LET h == ShaBlocks(ShaH0, ShaPad(m), 0)
    IN  <<>> \o [i \in 1..32 |->
            LET x == h[((i - 1) \div 4) + 1]
                k == (i - 1) % 4
            IN  IF k = 0 THEN x[1] \div 256
                ELSE IF k = 1 THEN x[1] % 256
                ELSE IF k = 2 THEN x[2] \div 256
                ELSE x[2] % 256]

\* the first byte of the data in place of the first byte of its digest
CheckByteFirst(m) == m[1]

\* sha256::Hash::hash(&secret).as_byte_array()[0]
CheckByte(m) == Sha256(m)[1]


(***************************************************************************)
(* Bytes, masks and results.                                               *)
(***************************************************************************)
INDICES_MASK == <<64, 32, 16, 8, 4, 2, 1>>

INDICES_ALL == 127

VERSION_MASK == 128

\* x & y on u8
And8(x, y) == 16 * And4[(x \div 16) + 1][(y \div 16) + 1] + And4[(x % 16) + 1][(y % 16) + 1]

\* x | y on u8
Or8(x, y) == x + y - And8(x, y)

\* x ^ y on u8
Xor8(x, y) == 16 * Xor4[(x \div 16) + 1][(y \div 16) + 1] + Xor4[(x % 16) + 1][(y % 16) + 1]

\* u8::count_ones
RECURSIVE CountOnes(_)
CountOnes(v) == IF v = 0 THEN 0 ELSE (v % 2) + CountOnes(v \div 2)

\* the elements i..j of ss laid end to end
RECURSIVE ConcatRange(_, _, _)
ConcatRange(ss, i, j) ==
    IF i > j THEN <<>>
    ELSE IF i = j THEN ss[i]
    ELSE ConcatRange(ss, i, (i + j) \div 2) \o ConcatRange(ss, ((i + j) \div 2) + 1, j)

Concat(ss) == ConcatRange(ss, 1, Len(ss))

\* the sum of the elements i..j of s
RECURSIVE SumRange(_, _, _)
SumRange(s, i, j) ==
    IF i > j THEN 0
    ELSE IF i = j THEN s[i]
    ELSE SumRange(s, i, (i + j) \div 2) + SumRange(s, ((i + j) \div 2) + 1, j)

SumSeq(s) == SumRange(s, 1, Len(s))

\* Vec::split_off(at), 0 <= at <= len: <<what stays, what is split off>>
SplitOff(s, at) == <<SubSeq(s, 1, at), SubSeq(s, at + 1, Len(s))>>

\* Result::Ok, Result::Err (a DiagramError: its variant and its message),
\* and a panic of the thread
Ok(v) == [tag |-> "Ok", val |-> v]

Err(kind, msg) == [tag |-> "Err", kind |-> kind, msg |-> msg]

Panic(msg) == [tag |-> "Panic", msg |-> msg]

(***************************************************************************)
(* UTF-8: char::encode_utf8 / String::as_bytes and String::from_utf8.      *)
(***************************************************************************)
Utf8Encode(ch) ==
    IF ch < 128 THEN <<ch>>
    ELSE IF ch < 2048 THEN <<192 + (ch \div 64), 128 + (ch % 64)>>
    ELSE IF ch < 65536 THEN
        <<224 + (ch \div 4096), 128 + ((ch \div 64) % 64), 128 + (ch % 64)>>
    ELSE <<240 + (ch \div 262144), 128 + ((ch \div 4096) % 64),
           128 + ((ch \div 64) % 64), 128 + (ch % 64)>>

\* the bytes of a string given as its sequence of chars
StrBytes(chars) == Concat([i \in 1..Len(chars) |-> Utf8Encode(chars[i])])

\* the width of the sequence a first byte announces, 0 for an invalid first byte
Utf8Width(b) ==
    IF b < 128 THEN 1
    ELSE IF b >= 194 /\ b <= 223 THEN 2
    ELSE IF b >= 224 /\ b <= 239 THEN 3
    ELSE IF b >= 240 /\ b <= 244 THEN 4
    ELSE 0

Utf8Cont(b) == b >= 128 /\ b <= 191

\* the valid range of the second byte after first byte b
Utf8Second(b, c) ==
    IF b = 224 THEN c >= 160 /\ c <= 191
    ELSE IF b = 237 THEN c >= 128 /\ c <= 159
    ELSE IF b = 240 THEN c >= 144 /\ c <= 191
    ELSE IF b = 244 THEN c >= 128 /\ c <= 143
    ELSE Utf8Cont(c)

\* one char of String::from_utf8: st is [ok, i, chars], the bytes before i
\* decoded into chars; nothing is left to do after an error or the last byte
Utf8Step(bs, st) ==
    IF ~st.ok \/ st.i > Len(bs) THEN st
    ELSE LET i    == st.i
             b    == bs[i]
             w    == Utf8Width(b)
             fail == [ok |-> FALSE, i |-> i, chars |-> <<>>]
         IN  IF w = 0 \/ i + w - 1 > Len(bs) THEN fail
             ELSE IF w = 1 THEN [ok |-> TRUE, i |-> i + 1, chars |-> Append(st.chars, b)]
             ELSE IF ~Utf8Second(b, bs[i + 1]) THEN fail
             ELSE IF w = 2 THEN
                 [ok |-> TRUE, i |-> i + 2,
                  chars |-> Append(st.chars, (b - 192) * 64 + (bs[i + 1] - 128))]
             ELSE IF ~Utf8Cont(bs[i + 2]) THEN fail
             ELSE IF w = 3 THEN
                 [ok |-> TRUE, i |-> i + 3,
                  chars |-> Append(st.chars,
                      (b - 224) * 4096 + (bs[i + 1] - 128) * 64 + (bs[i + 2] - 128))]
             ELSE IF ~Utf8Cont(bs[i + 3]) THEN fail
             ELSE [ok |-> TRUE, i |-> i + 4,
                   chars |-> Append(st.chars,
                       (b - 240) * 262144 + (bs[i + 1] - 128) * 4096
                     + (bs[i + 2] - 128) * 64 + (bs[i + 3] - 128))]

\* n chars of String::from_utf8; the first half is evaluated before the
\* second is started
RECURSIVE Utf8Decode(_, _, _)
Utf8Decode(bs, st, n) ==
    IF n <= 1 THEN Utf8Step(bs, st)
    ELSE LET h == Utf8Decode(bs, st, n \div 2)
         IN  IF h.i > 0 THEN Utf8Decode(bs, h, n - (n \div 2)) ELSE st

\* String::from_utf8 and s.chars(): [ok, chars]; a string has at most as
\* many chars as bytes
FromUtf8(bs) ==
    LET st == Utf8Decode(bs, [ok |-> TRUE, i |-> 1, chars |-> <<>>], Len(bs))
    IN  [ok |-> st.ok, chars |-> st.chars]

(***************************************************************************)
(* The 7 x 7 grid.  A cell is addressed as data[row][col], 0 <= row, col   *)
(* <= 6.  Both codecs write the cells column 6 down to 0 and, inside a     *)
(* column, row 6 down to 0, and read them back in the opposite order.      *)
(***************************************************************************)
\* the cells written row 6 down to 0 and, inside a row, column 6 down to 0
EncodeOrderRowMajor == <<>> \o [k \in 1..49 |-> <<6 - ((k - 1) \div 7), 6 - ((k - 1) % 7)>>]

\* (0..7).rev() over col, inside it (0..7).rev() over row: <<row, col>>
EncodeOrder == <<>> \o [k \in 1..49 |-> <<6 - ((k - 1) % 7), 6 - ((k - 1) \div 7)>>]

\* the cells read row 0 up to 6 and, inside a row, column 0 up to 6
DecodeOrderRowMajor == <<>> \o [k \in 1..49 |-> <<(k - 1) \div 7, (k - 1) % 7>>]

\* INDICES_MASK.iter().enumerate() over col, inside it indices over row
DecodeOrder == <<>> \o [k \in 1..49 |-> <<(k - 1) % 7, (k - 1) \div 7>>]

\* indices[row] |= INDICES_MASK[col] for every populated cell of the grid
IndicesOf(data) ==
    <<>> \o [r \in 1..7 |->
        SumSeq([c \in 1..7 |-> IF data[r - 1][c - 1] # <<>> THEN INDICES_MASK[c] ELSE 0])]

(***************************************************************************)
(* SimpleDiagram: data: [[Option<char>; 7]; 7].  None is <<>>, Some(ch) is *)
(* <<ch>>.                                                                 *)
(***************************************************************************)
None == <<>>

Some(ch) == <<ch>>

IsSome(cell) == cell # <<>>

SimpleNew == [row \in 0..6 |-> [col \in 0..6 |-> None]]

\* is_empty with any() in place of all()
SimpleIsEmptyAny(data) == \E row \in 0..6 : \E col \in 0..6 : data[row][col] = None

SimpleIsEmpty(data) == \A row \in 0..6 : \A col \in 0..6 : data[row][col] = None

\* SimpleDiagram::set
SimpleSet(data, val, row, col) == [data EXCEPT ![row][col] = val]

\* SimpleDiagram::to_secret
SimpleToSecret(data) ==
    IF SimpleIsEmpty(data) THEN Err("EmptyDiagram", "")
    ELSE LET cells   == SelectSeq(EncodeOrder, LAMBDA p : IsSome(data[p[1]][p[2]]))
             chars   == [i \in 1..Len(cells) |-> data[cells[i][1]][cells[i][2]][1]]
             indices == IndicesOf(data)
             secret  == StrBytes(chars) \o indices
         IN  Ok(Append(secret, CheckByte(secret)))

\* one pass of the fill loop of SimpleDiagram::from_secret, at position k of
\* DecodeOrder: st is [err, data, items], err set by the early return
SimpleFillStep(st, indices, k) ==
    LET row == DecodeOrder[k][1]
        col == DecodeOrder[k][2]
    IN  IF st.err THEN st
        ELSE IF And8(indices[row + 1], INDICES_MASK[col + 1]) > 0 THEN
            IF st.items = <<>> THEN [st EXCEPT !.err = TRUE]
            ELSE [err   |-> FALSE,
                  data  |-> [st.data EXCEPT ![row][col] = Some(st.items[Len(st.items)])],
                  items |-> SubSeq(st.items, 1, Len(st.items) - 1)]
        ELSE st

\* the passes k..j of the fill loop; the first half is evaluated before the
\* second is started
RECURSIVE SimpleFillRange(_, _, _, _)
SimpleFillRange(st, indices, k, j) ==
    IF k = j THEN SimpleFillStep(st, indices, k)
    ELSE LET h == SimpleFillRange(st, indices, k, (k + j) \div 2)
         IN  IF h.err \in BOOLEAN THEN SimpleFillRange(h, indices, ((k + j) \div 2) + 1, j)
             ELSE st

\* the fill loop of SimpleDiagram::from_secret and the test that follows it
SimpleFill(data, indices, items) ==
    LET st == SimpleFillRange([err |-> FALSE, data |-> data, items |-> items], indices, 1, 49)
    IN  IF st.err \/ st.items # <<>> THEN Err("InvalidParameter", "items len invalid.")
        ELSE Ok(st.data)

\* from_secret with no look at the version flags
SimpleFromSecretAnyVersion(secret) ==
    IF Len(secret) <= 8 THEN Err("InvalidParameter", "secret too short.")
    ELSE LET body    == SubSeq(secret, 1, Len(secret) - 1)
             check   == secret[Len(secret)]
             parts   == SplitOff(body, Len(body) - 7)
             indices == parts[2]
             str     == FromUtf8(parts[1])
         IN  IF check # CheckByte(body) THEN Err("InvalidParameter", "checksum fail.")
             ELSE IF ~str.ok THEN Err("InvalidParameter", "invalid utf8 chars.")
             ELSE SimpleFill(SimpleNew, indices, str.chars)

\* from_secret with the chars decoded before the version is looked at
SimpleFromSecretCharsFirst(secret) ==
    IF Len(secret) <= 8 THEN Err("InvalidParameter", "secret too short.")
    ELSE LET body    == SubSeq(secret, 1, Len(secret) - 1)
             check   == secret[Len(secret)]
             parts   == SplitOff(body, Len(body) - 7)
             indices == parts[2]
             str     == FromUtf8(parts[1])
         IN  IF check # CheckByte(body) THEN Err("InvalidParameter", "checksum fail.")
             ELSE IF ~str.ok THEN Err("InvalidParameter", "invalid utf8 chars.")
             ELSE IF \E i \in 1..7 : And8(indices[i], VERSION_MASK) # 0 THEN
                 Err("InvalidVersion", "")
             ELSE SimpleFill(SimpleNew, indices, str.chars)

\* SimpleDiagram::from_secret
SimpleFromSecret(secret) ==
    IF Len(secret) <= 8 THEN Err("InvalidParameter", "secret too short.")
    ELSE LET body    == SubSeq(secret, 1, Len(secret) - 1)
             check   == secret[Len(secret)]
             parts   == SplitOff(body, Len(body) - 7)
             indices == parts[2]
             str     == FromUtf8(parts[1])
         IN  IF check # CheckByte(body) THEN Err("InvalidParameter", "checksum fail.")
             ELSE IF \E i \in 1..7 : And8(indices[i], VERSION_MASK) # 0 THEN
                 Err("InvalidVersion", "")
             ELSE IF ~str.ok THEN Err("InvalidParameter", "invalid utf8 chars.")
             ELSE SimpleFill(SimpleNew, indices, str.chars)

(***************************************************************************)
(* ComplexDiagram: data: [[String; 7]; 7].  A String is its sequence of    *)
(* chars; String::len is the length of its UTF-8 bytes.                    *)
(***************************************************************************)
CELL_CHARS_LIMIT == 50

ComplexNew == [row \in 0..6 |-> [col \in 0..6 |-> <<>>]]

ComplexIsEmpty(data) == \A row \in 0..6 : \A col \in 0..6 : data[row][col] = <<>>

NonEmptyStr(s) == s # <<>>

\* set with the limit one char lower
ComplexSetBelowLimit(data, str, row, col, debug) ==
    IF Len(str) >= CELL_CHARS_LIMIT THEN <<data, Err("Overflows", "chars count <= 50")>>
    ELSE <<[data EXCEPT ![row][col] = str], Ok(<<>>)>>

\* ComplexDiagram::set: <<the diagram after the call, what the call returns>>.
\* debug is TRUE for a build with debug assertions.
ComplexSet(data, str, row, col, debug) ==
    IF Len(str) > CELL_CHARS_LIMIT THEN <<data, Err("Overflows", "chars count <= 50")>>
    ELSE IF debug /\ ~(Len(StrBytes(str)) < 255) THEN
        <<data, Panic("assertion failed: str.len() < u8::MAX as usize")>>
    ELSE <<[data EXCEPT ![row][col] = str], Ok(<<>>)>>

\* ComplexDiagram::from_items on items and indices of valid positions
RECURSIVE ComplexPlace(_, _, _)
ComplexPlace(data, items, indices) ==
    IF indices = <<>> THEN data
    ELSE ComplexPlace([data EXCEPT ![indices[1][1]][indices[1][2]] = items[1]],
                      Tail(items), Tail(indices))

ComplexFromItems(items, indices) ==
    IF items = <<>> \/ \E i \in 1..Len(items) : items[i] = <<>> THEN
        Err("InvalidParameter", "items cannot contains empty value.")
    ELSE IF indices = <<>> \/ Len(indices) # Len(items) THEN
        Err("InvalidParameter", "indices len should equal to items len.")
    ELSE Ok(ComplexPlace(ComplexNew, items, indices))

\* the length byte with chars().count() in place of len()
StrLenChars(str) == Len(str) % 256

\* s.len() as u8: the length of the string's bytes, its low 8 bits kept
StrLenByte(str) == Len(StrBytes(str)) % 256

\* ComplexDiagram::to_secret
ComplexToSecret(data, debug) ==
    IF ComplexIsEmpty(data) THEN Err("EmptyDiagram", "")
    ELSE LET cells    == SelectSeq(EncodeOrder, LAMBDA p : NonEmptyStr(data[p[1]][p[2]]))
             str_list == <<>> \o [i \in 1..Len(cells) |-> StrBytes(data[cells[i][1]][cells[i][2]])]
             str_lens == [i \in 1..Len(cells) |-> StrLenByte(data[cells[i][1]][cells[i][2]])]
             marks    == IndicesOf(data)
             indices  == [marks EXCEPT ![1] = Or8(marks[1], VERSION_MASK)]
             secret   == Concat(str_list) \o str_lens \o indices
         IN  IF debug /\ \E i \in 1..Len(cells) : ~(Len(str_list[i]) < 255) THEN
                 Panic("assertion failed: s.len() < u8::MAX as usize")
             ELSE Ok(Append(secret, CheckByte(secret)))

\* the pass of the fill loop with the length taken from the front of
\* str_lens in place of pop()
ComplexFillStepFront(st, indices, k) ==
    LET row == DecodeOrder[k][1]
        col == DecodeOrder[k][2]
    IN  IF st.out.tag # "Ok" THEN st
        ELSE IF And8(indices[row + 1], INDICES_MASK[col + 1]) > 0 THEN
            LET n  == IF st.str_lens = <<>> THEN 0 ELSE st.str_lens[1]
                ls == IF st.str_lens = <<>> THEN <<>> ELSE Tail(st.str_lens)
            IN  IF n > Len(st.secret)
                THEN [st EXCEPT !.out = Panic("attempt to subtract with overflow")]
                ELSE LET parts == SplitOff(st.secret, Len(st.secret) - n)
                         str   == FromUtf8(parts[2])
                     IN  IF ~str.ok
                         THEN [st EXCEPT !.out = Err("InvalidParameter", "invalid utf8 string.")]
                         ELSE [out      |-> st.out,
                               data     |-> [st.data EXCEPT ![row][col] = str.chars],
                               str_lens |-> ls,
                               secret   |-> parts[1]]
        ELSE st

\* one pass of the fill loop of ComplexDiagram::from_secret, at position k of
\* DecodeOrder: st is [out, data, str_lens, secret], out set by the early
\* return or the panic of split_off
ComplexFillStep(st, indices, k) ==
    LET row == DecodeOrder[k][1]
        col == DecodeOrder[k][2]
    IN  IF st.out.tag # "Ok" THEN st
        ELSE IF And8(indices[row + 1], INDICES_MASK[col + 1]) > 0 THEN
            LET n  == IF st.str_lens = <<>> THEN 0 ELSE st.str_lens[Len(st.str_lens)]
                ls == IF st.str_lens = <<>> THEN <<>>
                      ELSE SubSeq(st.str_lens, 1, Len(st.str_lens) - 1)
            IN  IF n > Len(st.secret)
                THEN [st EXCEPT !.out = Panic("attempt to subtract with overflow")]
                ELSE LET parts == SplitOff(st.secret, Len(st.secret) - n)
                         str   == FromUtf8(parts[2])
                     IN  IF ~str.ok
                         THEN [st EXCEPT !.out = Err("InvalidParameter", "invalid utf8 string.")]
                         ELSE [out      |-> st.out,
                               data     |-> [st.data EXCEPT ![row][col] = str.chars],
                               str_lens |-> ls,
                               secret   |-> parts[1]]
        ELSE st

\* the passes k..j of the fill loop; the first half is evaluated before the
\* second is started
RECURSIVE ComplexFillRange(_, _, _, _)
ComplexFillRange(st, indices, k, j) ==
    IF k = j THEN ComplexFillStep(st, indices, k)
    ELSE LET h == ComplexFillRange(st, indices, k, (k + j) \div 2)
         IN  IF h.out.tag # "" THEN ComplexFillRange(h, indices, ((k + j) \div 2) + 1, j)
             ELSE st

\* the fill loop of ComplexDiagram::from_secret
ComplexFill(data, indices, str_lens, secret) ==
    LET st == ComplexFillRange([out |-> Ok(<<>>), data |-> data, str_lens |-> str_lens,
                                secret |-> secret], indices, 1, 49)
    IN  IF st.out.tag # "Ok" THEN st.out ELSE Ok(st.data)

\* the version sum with the shift counted from 1 in place of 0
ComplexVersionShiftOne(indices) ==
    SumSeq([i \in 1..7 |-> And8(indices[i], VERSION_MASK) \div (2^(7 - i))])

\* the version flag of indices[0] alone
ComplexVersionFirstOnly(indices) == And8(indices[1], VERSION_MASK) \div 128

\* the sum over i of (indices[i] & VERSION_MASK) >> (7 - i), i from 0
ComplexVersion(indices) ==
    SumSeq([i \in 1..7 |-> And8(indices[i], VERSION_MASK) \div (2^(8 - i))])

\* ComplexDiagram::from_secret.  secret.len() - item_count underflows when
\* the indices mark more cells than bytes are left: the subtraction panics
\* with overflow checks, and wraps to an index split_off panics on without.
ComplexFromSecret(secret) ==
    IF Len(secret) < 10 THEN Err("InvalidParameter", "secret too short.")
    ELSE LET body       == SubSeq(secret, 1, Len(secret) - 1)
             check      == secret[Len(secret)]
             parts      == SplitOff(body, Len(body) - 7)
             indices    == parts[2]
             version    == ComplexVersion(indices)
             item_count == SumSeq([i \in 1..7 |-> CountOnes(And8(indices[i], INDICES_ALL))])
         IN  IF check # CheckByte(body) THEN Err("InvalidParameter", "checksum fail.")
             ELSE IF version # 1 THEN Err("InvalidVersion", "")
             ELSE IF item_count = 0 THEN Err("InvalidParameter", "indices is empty.")
             ELSE IF item_count > Len(parts[1]) THEN
                 Panic("secret.len() - item_count overflows")
             ELSE LET rest     == SplitOff(parts[1], Len(parts[1]) - item_count)
                      str_lens == rest[2]
                  IN  IF str_lens = <<>> \/ (\E i \in 1..Len(str_lens) : str_lens[i] = 0)
                         \/ SumSeq(str_lens) # Len(rest[1]) THEN
                          Err("InvalidParameter", "str lens invalid.")
                      ELSE ComplexFill(ComplexNew, indices, str_lens, rest[1])

(***************************************************************************)
(* AnimateDiagram(Vec<[[Option<char>; 7]; 7]>): a sequence of frames, the  *)
(* chronologically first frame first.                                      *)
(***************************************************************************)
\* the frames taken first to last
ReverseKeep(s) == s

\* self.0.iter().rev()
Reverse(s) == [i \in 1..Len(s) |-> s[Len(s) + 1 - i]]

\* the chars one frame pushes: col 6 -> 0, within a column row 6 -> 0
FrameChars(mx) ==
    LET cells == SelectSeq(EncodeOrder, LAMBDA p : IsSome(mx[p[1]][p[2]]))
    IN  [i \in 1..Len(cells) |-> mx[cells[i][1]][cells[i][2]][1]]

\* the indices block one frame pushes, with the version bit in indices[1]
FrameIndices(mx) ==
    LET marks == IndicesOf(mx)
    IN  [marks EXCEPT ![2] = Or8(marks[2], VERSION_MASK)]

\* to_bytes with the end flag set in the block pushed last
AnimateToBytesEndLast(diagram) ==
    IF diagram = <<>> THEN
        Panic("index out of bounds: the len is 0 but the index is 0")
    ELSE LET rev    == Reverse(diagram)
             chars  == Concat([i \in 1..Len(rev) |-> FrameChars(rev[i])])
             pushed == [i \in 1..Len(rev) |-> FrameIndices(rev[i])]
             frames == [pushed EXCEPT ![Len(rev)][1] = Or8(pushed[Len(rev)][1], VERSION_MASK)]
             secret == StrBytes(chars) \o Concat(frames)
         IN  Ok(Append(secret, CheckByte(secret)))

\* AnimateDiagram::to_bytes.  frames[0] of an empty Vec is out of bounds.
AnimateToBytes(diagram) ==
    IF diagram = <<>> THEN
        Panic("index out of bounds: the len is 0 but the index is 0")
    ELSE LET rev    == Reverse(diagram)
             chars  == Concat([i \in 1..Len(rev) |-> FrameChars(rev[i])])
             pushed == [i \in 1..Len(rev) |-> FrameIndices(rev[i])]
             frames == [pushed EXCEPT ![1][1] = Or8(pushed[1][1], VERSION_MASK)]
             secret == StrBytes(chars) \o Concat(frames)
         IN  Ok(Append(secret, CheckByte(secret)))

(***************************************************************************)
(* State.  One diagram object and what the calls on it returned.           *)
(***************************************************************************)
VARIABLES
    layout,     \* the type of the object: "simple", "complex", "animate", "generic"
    diagram,    \* the object's data
    fresh,      \* TRUE while the object is as new() made it
    pc,         \* the last call: "new", "set", "to_secret", "flip", "from_secret", ...
    ret,        \* what the last set returned
    secret,     \* what the last to_secret / to_bytes returned
    flipat,     \* the bit of the secret a transmission error flipped, 0 for none
    received,   \* the bytes handed to from_secret
    decoded,    \* what from_secret returned
    salt,       \* the salt handed to to_entropy
    calls,      \* the key derivation calls the last to_entropy made, in order
    entropy,    \* the entropy handed to Mnemonic::new
    language,   \* the language handed to Mnemonic::new
    mnemonic,   \* what Mnemonic::new returned
    phrase,     \* what to_string returned: the chars of the phrase
    parsed,     \* what Mnemonic::from_str returned
    recovered,  \* what entropy() of the parsed mnemonic returned
    bitsIn,     \* the booleans handed to to_bits
    bytesIn,    \* the bytes bit_chunks is called on
    width,      \* the n handed to bit_chunks
    chunked,    \* what collecting bit_chunks(n) gave
    packed,     \* what to_bits returned
    unpacked,   \* what collecting bit_iter() of the packed bytes gave
    tpc,        \* where each thread is in its call of index_of
    tword,      \* the word each thread looks up
    tbuilt,     \* the entries each thread has put into the map it is building
    tret,       \* what index_of returned to each thread
    onceState,  \* the OnceLock of the language: "incomplete", "running", "complete"
    dic,        \* the entries of the map the OnceLock holds
    builds,     \* how many times the closure of get_or_init has been started
    pwdType,    \* the Password handed to bip85_pwd
    pwdLen,     \* the pwd_len handed to bip85_pwd
    derived,    \* what bip85_derive returned for the path of the password
    pwd,        \* what bip85_pwd returned
    genDims,    \* <<H, W>> of the GenericDiagram type
    genVec,     \* the Vec<Option<u8>> handed to GenericDiagram::from
    genOfVec,   \* the GenericDiagram made from the Vec
    genOfMatrix \* the GenericDiagram made from the matrix of the same values

diagramVars == <<layout, diagram, fresh, ret, secret, flipat, received, decoded>>

kdfVars == <<salt, calls>>

mnemonicVars == <<entropy, language, mnemonic, phrase, parsed, recovered>>

bitsVars == <<bitsIn, bytesIn, width, chunked, packed, unpacked>>

onceVars == <<tpc, tword, tbuilt, tret, onceState, dic, builds>>

pwdVars == <<pwdType, pwdLen, derived, pwd>>

genVars == <<genDims, genVec, genOfVec, genOfMatrix>>

vars == <<diagramVars, pc, kdfVars, mnemonicVars, bitsVars, onceVars, pwdVars, genVars>>

\* no value: the call has not been made
Idle == [tag |-> "Idle"]

\* to_entropy has not been called
NoEntropyCall == salt = Idle /\ calls = <<>>

\* no mnemonic has been made
NoMnemonic ==
    /\ entropy = Idle /\ language = Idle /\ mnemonic = Idle
    /\ phrase = Idle /\ parsed = Idle /\ recovered = Idle

\* no bit operation has been called
NoBits ==
    /\ bitsIn = Idle /\ bytesIn = Idle /\ width = 0
    /\ chunked = Idle /\ packed = Idle /\ unpacked = Idle

\* no thread calls index_of
NoThreads ==
    /\ tpc = <<>> /\ tword = <<>> /\ tbuilt = <<>> /\ tret = <<>>
    /\ onceState = "incomplete" /\ dic = 0 /\ builds = 0

\* no password has been asked for
NoPwd == pwdType = Idle /\ pwdLen = 0 /\ derived = Idle /\ pwd = Idle

\* no GenericDiagram has been made from a Vec
NoGeneric == genDims = Idle /\ genVec = Idle /\ genOfVec = Idle /\ genOfMatrix = Idle

MaxCells == 2

Positions == {<<0, 6>>, <<6, 0>>, <<6, 6>>}

\* 'A', e-acute, U+738B, U+1F60A: one char of each UTF-8 width
Chars == {65, 233, 29579, 128522}

Str50 == [i \in 1..CELL_CHARS_LIMIT |-> 65]

Str51 == [i \in 1..(CELL_CHARS_LIMIT + 1) |-> 65]

Strs == {<<>>, <<65>>, <<233, 29579, 128522>>, Str50, Str51}

Populated(data) == Cardinality({p \in (0..6) \X (0..6) : data[p[1]][p[2]] # <<>>})

\* SimpleDiagram::new(), ComplexDiagram::new(), or ComplexDiagram::from_items
\* with one item longer than set() admits
Init ==
    /\ \/ layout = "simple" /\ diagram = SimpleNew /\ fresh = TRUE
       \/ layout = "complex" /\ diagram = ComplexNew /\ fresh = TRUE
       \/ /\ layout = "complex"
          /\ \E p \in Positions : diagram = ComplexFromItems(<<Str51>>, <<p>>).val
          /\ fresh = FALSE
    /\ pc = "new"
    /\ ret = Idle
    /\ secret = Idle
    /\ flipat = 0
    /\ received = Idle
    /\ decoded = Idle
    /\ NoEntropyCall
    /\ NoMnemonic
    /\ NoBits
    /\ NoThreads
    /\ NoPwd
    /\ NoGeneric

\* diagram.set(val, row, col) on a SimpleDiagram
SimpleSetCall(val, row, col) ==
    /\ layout = "simple"
    /\ Populated(SimpleSet(diagram, val, row, col)) <= MaxCells
    /\ diagram' = SimpleSet(diagram, val, row, col)
    /\ ret' = Ok(<<>>)
    /\ fresh' = FALSE
    /\ pc' = "set"
    /\ secret' = Idle
    /\ received' = Idle
    /\ decoded' = Idle
    /\ UNCHANGED <<pwdVars, genVars, bitsVars, onceVars, kdfVars, mnemonicVars, layout, flipat>>

\* diagram.set(str, row, col) on a ComplexDiagram
ComplexSetCall(str, row, col) ==
    /\ layout = "complex"
    /\ Populated(ComplexSet(diagram, str, row, col, FALSE)[1]) <= MaxCells
    /\ diagram' = ComplexSet(diagram, str, row, col, FALSE)[1]
    /\ ret' = ComplexSet(diagram, str, row, col, FALSE)[2]
    /\ fresh' = FALSE
    /\ pc' = "set"
    /\ secret' = Idle
    /\ received' = Idle
    /\ decoded' = Idle
    /\ UNCHANGED <<pwdVars, genVars, bitsVars, onceVars, kdfVars, mnemonicVars, layout, flipat>>

\* diagram.to_secret()
ToSecretCall ==
    /\ layout \in {"simple", "complex"}
    /\ pc \in {"new", "set"}
    /\ secret' = IF layout = "simple" THEN SimpleToSecret(diagram)
                 ELSE ComplexToSecret(diagram, FALSE)
    /\ pc' = "to_secret"
    /\ ret' = Idle
    /\ UNCHANGED <<pwdVars, genVars, bitsVars, onceVars, kdfVars, mnemonicVars, layout, diagram, fresh, flipat, received, decoded>>

\* from_secret(secret) on the bytes to_secret returned
FromSecretCall ==
    /\ pc = "to_secret"
    /\ secret.tag = "Ok"
    /\ received' = secret.val
    /\ decoded' = IF layout = "simple" THEN SimpleFromSecret(secret.val)
                  ELSE ComplexFromSecret(secret.val)
    /\ pc' = "from_secret"
    /\ UNCHANGED <<pwdVars, genVars, bitsVars, onceVars, kdfVars, mnemonicVars, layout, diagram, fresh, ret, secret, flipat>>

Next ==
    \/ \E p \in Positions, val \in {None} \cup {Some(ch) : ch \in Chars} :
           SimpleSetCall(val, p[1], p[2])
    \/ \E p \in Positions, str \in Strs : ComplexSetCall(str, p[1], p[2])
    \/ ToSecretCall
    \/ FromSecretCall

Spec == Init /\ [][Next]_vars

(***************************************************************************)
(* Properties of the Simple and Complex codecs, checked under Spec.        *)
(***************************************************************************)
AllCells == (0..6) \X (0..6)

CellBytes(cell) == IF cell = <<>> THEN <<>> ELSE StrBytes(cell)

CellLenByte(cell) == IF cell = <<>> THEN <<>> ELSE <<Len(StrBytes(cell))>>

\* the bytes a grid contributes, column 6 down to 0 and, inside a column,
\* row 6 down to 0; a cell that is not populated contributes nothing
ColumnMajorBytes(data) ==
    Concat([c \in 1..7 |-> Concat([r \in 1..7 |-> CellBytes(data[7 - r][7 - c])])])

\* the byte length of every populated cell, in the same order
ColumnMajorLens(data) ==
    Concat([c \in 1..7 |-> Concat([r \in 1..7 |-> CellLenByte(data[7 - r][7 - c])])])

\* bit n (0 the least significant) of byte b
BitOf(b, n) == (b \div (2^n)) % 2

\* C1: a SimpleDiagram with at least one populated cell is encoded by
\* to_secret, and from_secret on those bytes returns a diagram equal to it
\* cell for cell.
SimpleRoundTrip ==
    (layout = "simple" /\ ~SimpleIsEmpty(diagram)) =>
        /\ pc = "to_secret" => secret.tag = "Ok"
        /\ pc = "from_secret" => decoded = Ok(diagram)

SimpleRoundTripWitness ==
    /\ layout = "simple"
    /\ pc = "from_secret"
    /\ diagram[0][6] = Some(128522)
    /\ diagram[6][0] = Some(233)
    /\ decoded = Ok(diagram)

\* C2: a ComplexDiagram with at least one non-empty cell and at most 50
\* characters in every cell is encoded by to_secret, and from_secret on
\* those bytes returns a diagram equal to it cell for cell.
ComplexRoundTrip ==
    (/\ layout = "complex"
     /\ ~ComplexIsEmpty(diagram)
     /\ \A p \in AllCells : Len(diagram[p[1]][p[2]]) <= 50) =>
        /\ pc = "to_secret" => secret.tag = "Ok"
        /\ pc = "from_secret" => decoded = Ok(diagram)

ComplexRoundTripWitness ==
    /\ layout = "complex"
    /\ pc = "from_secret"
    /\ diagram[6][6] = Str50
    /\ diagram[0][6] = <<233, 29579, 128522>>
    /\ decoded = Ok(diagram)

\* C5: the bytes to_secret returns for a non-empty SimpleDiagram are the
\* UTF-8 bytes of the populated cells column 6 -> 0, row 6 -> 0, then 7
\* indices bytes with bit 1 << (6 - col) of indices[row] set exactly for the
\* populated cells and bit 7 clear, then the first byte of the SHA-256 of
\* all bytes before it.
SimpleLayout ==
    (layout = "simple" /\ pc \in {"to_secret", "from_secret"} /\ ~SimpleIsEmpty(diagram)) =>
        /\ secret.tag = "Ok"
        /\ LET b == secret.val
               n == Len(b)
           IN  /\ n >= 9
               /\ SubSeq(b, 1, n - 8) = ColumnMajorBytes(diagram)
               /\ \A row \in 0..6 :
                      /\ BitOf(b[n - 7 + row], 7) = 0
                      /\ \A col \in 0..6 :
                             BitOf(b[n - 7 + row], 6 - col) = 1 <=> diagram[row][col] # None
               /\ b[n] = Sha256(SubSeq(b, 1, n - 1))[1]

SimpleLayoutWitness ==
    /\ layout = "simple"
    /\ pc = "to_secret"
    /\ diagram[0][6] = Some(29579)
    /\ diagram[6][0] = Some(65)
    /\ secret = Ok(<<231, 142, 139, 65, 1, 0, 0, 0, 0, 0, 64, 248>>)

\* C6: the bytes to_secret returns for a non-empty ComplexDiagram whose
\* cells are shorter than 255 bytes are the strings' bytes column 6 -> 0,
\* row 6 -> 0, then one length byte per populated cell in that order, then
\* 7 indices bytes marking the populated cells with bit 7 set in indices[0]
\* only, then the first byte of the SHA-256 of all bytes before it.
ComplexLayout ==
    (/\ layout = "complex"
     /\ pc \in {"to_secret", "from_secret"}
     /\ ~ComplexIsEmpty(diagram)
     /\ \A p \in AllCells : Len(StrBytes(diagram[p[1]][p[2]])) < 255) =>
        /\ secret.tag = "Ok"
        /\ LET b == secret.val
               n == Len(b)
           IN  /\ n >= 10
               /\ SubSeq(b, 1, n - 8) = ColumnMajorBytes(diagram)
                                          \o ColumnMajorLens(diagram)
               /\ \A row \in 0..6 :
                      /\ BitOf(b[n - 7 + row], 7) = (IF row = 0 THEN 1 ELSE 0)
                      /\ \A col \in 0..6 :
                             BitOf(b[n - 7 + row], 6 - col) = 1 <=> diagram[row][col] # <<>>
               /\ b[n] = Sha256(SubSeq(b, 1, n - 1))[1]

ComplexLayoutWitness ==
    /\ layout = "complex"
    /\ pc = "to_secret"
    /\ diagram[0][6] = Str51
    /\ diagram[6][0] = <<233, 29579, 128522>>
    /\ secret.tag = "Ok"
    /\ SubSeq(secret.val, 61, 62) = <<51, 9>>

\* C8: after any sequence of set calls to_secret returns EmptyDiagram
\* exactly when no cell is populated, and bytes otherwise; a diagram fresh
\* from new() is rejected.
EmptyDiagramExactly ==
    (layout \in {"simple", "complex"} /\ pc \in {"to_secret", "from_secret"}) =>
        /\ secret = Err("EmptyDiagram", "") <=> Populated(diagram) = 0
        /\ secret.tag = "Ok" <=> Populated(diagram) > 0
        /\ fresh => secret = Err("EmptyDiagram", "")

\* a diagram emptied again by set calls is rejected
EmptyDiagramWitness ==
    /\ layout = "complex"
    /\ ~fresh
    /\ pc = "to_secret"
    /\ Populated(diagram) = 0
    /\ secret = Err("EmptyDiagram", "")

(***************************************************************************)
(* AnimateDiagram: the frame list is a public field, built by pushing      *)
(* frames and assigning cells, then encoded with to_bytes.                 *)
(***************************************************************************)
MaxFrames == 2

\* the populated cells of all frames together
AnimatePopulated(frames) == SumSeq([i \in 1..Len(frames) |-> Populated(frames[i])])

InitAnimate ==
    /\ layout = "animate"
    /\ diagram = <<>>
    /\ fresh = TRUE
    /\ pc = "new"
    /\ ret = Idle
    /\ secret = Idle
    /\ flipat = 0
    /\ received = Idle
    /\ decoded = Idle
    /\ NoEntropyCall
    /\ NoMnemonic
    /\ NoBits
    /\ NoThreads
    /\ NoPwd
    /\ NoGeneric

\* a frame [[None; 7]; 7] is appended to the list
AnimatePushFrame ==
    /\ Len(diagram) < MaxFrames
    /\ diagram' = Append(diagram, SimpleNew)
    /\ pc' = "push"
    /\ secret' = Idle
    /\ UNCHANGED <<pwdVars, genVars, bitsVars, onceVars, kdfVars, mnemonicVars, layout, fresh, ret, flipat, received, decoded>>

\* cube[f][row][col] = val
AnimateSetCell(f, val, row, col) ==
    /\ f \in 1..Len(diagram)
    /\ AnimatePopulated([diagram EXCEPT ![f] = SimpleSet(diagram[f], val, row, col)]) <= MaxCells
    /\ diagram' = [diagram EXCEPT ![f] = SimpleSet(diagram[f], val, row, col)]
    /\ pc' = "set"
    /\ secret' = Idle
    /\ fresh' = FALSE
    /\ UNCHANGED <<pwdVars, genVars, bitsVars, onceVars, kdfVars, mnemonicVars, layout, ret, flipat, received, decoded>>

\* diagram.to_bytes()
AnimateToBytesCall ==
    /\ layout = "animate"
    /\ pc \in {"new", "push", "set"}
    /\ secret' = AnimateToBytes(diagram)
    /\ pc' = "to_bytes"
    /\ UNCHANGED <<pwdVars, genVars, bitsVars, onceVars, kdfVars, mnemonicVars, layout, diagram, fresh, ret, flipat, received, decoded>>

NextAnimate ==
    \/ AnimatePushFrame
    \/ \E f \in 1..MaxFrames : \E p \in Positions : \E ch \in Chars :
           AnimateSetCell(f, Some(ch), p[1], p[2])
    \/ \E f \in 1..MaxFrames : \E p \in Positions : AnimateSetCell(f, None, p[1], p[2])
    \/ AnimateToBytesCall

SpecAnimate == InitAnimate /\ [][NextAnimate]_vars

\* the frame whose indices block is the k-th in byte order
BlockFrame(k) == diagram[Len(diagram) + 1 - k]

\* the pool of characters: frames from the last to the first
AnimatePool == Concat([k \in 1..Len(diagram) |-> ColumnMajorBytes(BlockFrame(k))])

\* C7: for an AnimateDiagram with n >= 1 frames, to_bytes returns the pool
\* of characters (frames from the last to the first, each column 6 -> 0 and
\* row 6 -> 0), then n 7-byte indices blocks from the last frame to the
\* first, then the checksum byte; every block has bit 7 of indices[1] set,
\* and bit 7 of indices[0] is set in the first block in byte order only.
AnimateLayout ==
    (layout = "animate" /\ pc = "to_bytes" /\ Len(diagram) >= 1) =>
        /\ secret.tag = "Ok"
        /\ LET b == secret.val
               n == Len(diagram)
               m == Len(AnimatePool)
           IN  /\ Len(b) = m + 7 * n + 1
               /\ SubSeq(b, 1, m) = AnimatePool
               /\ \A k \in 1..n : \A r \in 0..6 :
                      /\ \A c \in 0..6 :
                             BitOf(b[m + 7 * (k - 1) + r + 1], 6 - c)
                                 = (IF BlockFrame(k)[r][c] # None THEN 1 ELSE 0)
                      /\ BitOf(b[m + 7 * (k - 1) + r + 1], 7)
                             = (IF r = 1 \/ (r = 0 /\ k = 1) THEN 1 ELSE 0)
               /\ b[Len(b)] = CheckByte(SubSeq(b, 1, Len(b) - 1))

\* two frames with different cells have been encoded
AnimateLayoutWitness ==
    /\ layout = "animate" /\ pc = "to_bytes" /\ Len(diagram) = 2
    /\ diagram[1][0][6] = Some(65) /\ diagram[2][6][0] = Some(29579)
    /\ secret.tag = "Ok"
    /\ SubSeq(secret.val, 1, 4) = <<231, 142, 139, 65>>

\* C9: an AnimateDiagram in which no cell of any frame is populated,
\* the empty frame list included, is rejected by to_bytes with EmptyDiagram.
AnimateEmptyRejected ==
    (layout = "animate" /\ pc = "to_bytes" /\ AnimatePopulated(diagram) = 0) =>
        secret = Err("EmptyDiagram", "")

(***************************************************************************)
(* Corrupted secrets: a diagram is encoded, one bit of the bytes is        *)
(* flipped, and from_secret is called on the result.                       *)
(***************************************************************************)
\* the diagrams encoded: <<layout, data>>, each built with set
FlipDiagrams ==
    { <<"simple", SimpleSet(SimpleNew, Some(65), 0, 6)>>,
      <<"simple", SimpleSet(SimpleSet(SimpleNew, Some(29579), 6, 0), Some(128522), 6, 6)>>,
      <<"complex", ComplexSet(ComplexNew, <<65>>, 0, 6, FALSE)[1]>>,
      <<"complex", ComplexSet(ComplexNew, <<233, 29579, 128522>>, 6, 6, FALSE)[1]>> }

\* bytes with bit number i flipped; bits are numbered from 1, eight to a byte,
\* the least significant bit of a byte first
FlipBit(bytes, i) ==
    [bytes EXCEPT ![((i - 1) \div 8) + 1] = Xor8(@, 2^((i - 1) % 8))]

InitFlip ==
    /\ \E d \in FlipDiagrams : layout = d[1] /\ diagram = d[2]
    /\ fresh = FALSE
    /\ pc = "set"
    /\ ret = Ok(<<>>)
    /\ secret = Idle
    /\ flipat = 0
    /\ received = Idle
    /\ decoded = Idle
    /\ NoEntropyCall
    /\ NoMnemonic
    /\ NoBits
    /\ NoThreads
    /\ NoPwd
    /\ NoGeneric

\* one bit of the bytes to_secret returned is flipped
FlipCall(i) ==
    /\ pc = "to_secret"
    /\ secret.tag = "Ok"
    /\ i \in 1..(8 * Len(secret.val))
    /\ flipat' = i
    /\ received' = FlipBit(secret.val, i)
    /\ pc' = "flip"
    /\ UNCHANGED <<pwdVars, genVars, bitsVars, onceVars, kdfVars, mnemonicVars, layout, diagram, fresh, ret, secret, decoded>>

\* from_secret(received)
FlipFromSecretCall ==
    /\ pc = "flip"
    /\ decoded' = IF layout = "simple" THEN SimpleFromSecret(received)
                  ELSE ComplexFromSecret(received)
    /\ pc' = "from_secret"
    /\ UNCHANGED <<pwdVars, genVars, bitsVars, onceVars, kdfVars, mnemonicVars, layout, diagram, fresh, ret, secret, flipat, received>>

NextFlip ==
    \/ ToSecretCall
    \/ \E i \in 1..(8 * 64) : FlipCall(i)
    \/ FlipFromSecretCall

SpecFlip == InitFlip /\ [][NextFlip]_vars

\* C10: after one bit of the bytes returned by to_secret (Simple or Complex)
\* is flipped, from_secret fails with the checksum error, unless the flipped
\* data has the same first SHA-256 byte as the original data; a flip inside
\* the trailing checksum byte always fails with the checksum error.
ChecksumSensitivity ==
    (pc = "from_secret" /\ flipat > 0) =>
        LET n == Len(received)
        IN  (flipat > 8 * (n - 1) \/ Sha256(SubSeq(received, 1, n - 1))[1] # secret.val[n])
                => decoded = Err("InvalidParameter", "checksum fail.")

\* from_secret has refused the bytes of a Complex diagram in which bit 7 of
\* the first indices byte was flipped
ChecksumSensitivityWitness ==
    /\ pc = "from_secret" /\ layout = "complex"
    /\ flipat = 8 * (Len(received) - 8) + 8
    /\ received # secret.val
    /\ Sha256(SubSeq(received, 1, Len(received) - 1))[1] # secret.val[Len(received)]
    /\ decoded = Err("InvalidParameter", "checksum fail.")

(***************************************************************************)
(* to_entropy.  scrypt, pbkdf2 and argon2 are functions of external        *)
(* crates: a call is recorded with its algorithm, cost and both inputs,    *)
(* and its 32 output bytes are a position-weighted sum over all four, so   *)
(* that the output changes with the algorithm and with either input.       *)
(***************************************************************************)
DEFAULT_SALT == <<84, 104, 97, 110, 107, 115, 32, 83, 97, 116, 111, 115, 104, 105, 33>>

KdfInput(alg, cost, password, saltIn) ==
    <<alg>> \o cost \o <<Len(password) % 256>> \o password \o saltIn

\* byte i of the output: a sum of the input bytes weighted by position
KdfByte(m, i) == SumSeq([j \in 1..Len(m) |-> (m[j] + 1) * (i + j) * (i + j)]) % 256

KdfOutput(alg, cost, password, saltIn) ==
    [i \in 1..32 |-> KdfByte(KdfInput(alg, cost, password, saltIn), i)]

\* scrypt::scrypt(&secret, &salt, &Params::new(logN, 8, 1, 32), &mut output)
Scrypt(logN, password, saltIn) ==
    [kdf |-> "scrypt", cost |-> <<logN, 8, 1>>, password |-> password, salt |-> saltIn,
     out |-> KdfOutput(1, <<logN, 8, 1>>, password, saltIn)]

\* pbkdf2::pbkdf2_hmac::<sha2::Sha256>(&secret, &salt, 2^logRounds, &mut output)
Pbkdf2HmacSha256(logRounds, password, saltIn) ==
    [kdf |-> "pbkdf2_hmac_sha256", cost |-> <<logRounds>>, password |-> password, salt |-> saltIn,
     out |-> KdfOutput(2, <<logRounds>>, password, saltIn)]

\* argon2::Argon2::default().hash_password_into(&secret, &salt, &mut output)
Argon2Default(password, saltIn) ==
    [kdf |-> "argon2", cost |-> <<>>, password |-> password, salt |-> saltIn,
     out |-> KdfOutput(3, <<>>, password, saltIn)]

\* s1 |= s2 in place of s1 ^= s2
XorBytesOr(a, b) == [i \in 1..Len(a) |-> Or8(a[i], b[i])]

\* s1.iter_mut().zip(s2.iter()).for_each(|(a, b)| *a ^= b)
XorBytes(a, b) == [i \in 1..Len(a) |-> Xor8(a[i], b[i])]

\* <<Ok(s1), the two calls>>
EntropyOf(c1, c2) == <<Ok(XorBytes(c1.out, c2.out)), <<c1, c2>>>>

\* Diagram::to_entropy (diagram.rs): <<result, calls made>>; bytes is what
\* to_secret returned
DiagramToEntropy(bytes, saltArg) ==
    IF bytes.tag # "Ok" THEN <<bytes, <<>>>>
    ELSE EntropyOf(Scrypt(18, bytes.val \o <<1>>, saltArg \o <<1>>),
                   Pbkdf2HmacSha256(16, bytes.val \o <<2>>, saltArg \o <<2>>))

\* GenericDiagram::to_entropy of the trait (diagram/generic.rs); bytes is
\* what to_bytes returned
TraitToEntropy(bytes, saltArg) ==
    IF bytes.tag # "Ok" THEN <<bytes, <<>>>>
    ELSE EntropyOf(Scrypt(20, bytes.val \o <<1>>, DEFAULT_SALT \o saltArg \o <<1>>),
                   Argon2Default(bytes.val \o <<2>>, DEFAULT_SALT \o saltArg \o <<2>>))

\* GenericDiagram::to_entropy of the struct (generic.rs); bytes is what
\* rmp_serde::to_vec returned
GenericToEntropy(bytes, saltArg) ==
    IF bytes.tag # "Ok" THEN <<bytes, <<>>>>
    ELSE EntropyOf(Scrypt(18, bytes.val \o <<1>>, saltArg \o <<1>>),
                   Pbkdf2HmacSha256(16, bytes.val \o <<2>>, saltArg \o <<2>>))

(***************************************************************************)
(* GenericDiagram<H, W, T>(Vec<T>, Vec<u8>) of generic.rs with T = u8,     *)
(* made from a matrix and serialized with rmp_serde (MessagePack).         *)
(***************************************************************************)
\* [u8]::bit_from: the bits, then seven times false, eight to a byte, the
\* first bit the most significant.  The eighth bit of a byte is 1 << 8 on
\* u8: a panic with overflow checks, 1 << 0 without them.
BitFrom(bits, debug) ==
    LET padded == bits \o [i \in 1..7 |-> FALSE]
        n      == Len(padded) \div 8
    IN  IF debug /\ \E k \in 1..n : padded[8 * k]
        THEN Panic("attempt to shift left with overflow")
        ELSE Ok([k \in 1..n |->
                 SumSeq([j \in 1..8 |-> IF padded[8 * (k - 1) + j] THEN 2^(8 - j) ELSE 0])])

\* the cells of a matrix row by row
MatrixCells(matrix) == Concat(matrix)

\* From<Matrix<H, W, T>> for GenericDiagram<H, W, T>: [items, indices]
GenericFromMatrix(matrix) ==
    [items   |-> Concat(MatrixCells(matrix)),
     indices |-> BitFrom([i \in 1..Len(MatrixCells(matrix)) |-> MatrixCells(matrix)[i] # None],
                         FALSE).val]

\* MessagePack: a u8 is a positive fixint below 128, else 0xcc and the byte
RmpU8(v) == IF v < 128 THEN <<v>> ELSE <<204, v>>

\* MessagePack: a sequence of fewer than 16 u8 is a fixarray
RmpSeqU8(s) == <<144 + Len(s)>> \o Concat([i \in 1..Len(s) |-> RmpU8(s[i])])

\* rmp_serde::to_vec(&self): the tuple struct is an array of its two fields
RmpToVec(g) == Ok(<<146>> \o RmpSeqU8(g.items) \o RmpSeqU8(g.indices))

(***************************************************************************)
(* An object of one of the diagram types is made and to_entropy is called  *)
(* on it with a salt.                                                      *)
(***************************************************************************)
MaxSaltLen == 3

\* the salts: the byte strings over 0x01 and 'a' of up to MaxSaltLen bytes
Salts == UNION {[1..n -> {1, 97}] : n \in 0..MaxSaltLen}

\* a frame with one char
FrameX == SimpleSet(SimpleNew, Some(88), 3, 3)

\* the objects: <<layout, data>>
EntropyObjects ==
    { <<"simple", SimpleNew>>,
      <<"simple", SimpleSet(SimpleNew, Some(65), 0, 6)>>,
      <<"simple", SimpleSet(SimpleSet(SimpleNew, Some(29579), 6, 0), Some(128522), 6, 6)>>,
      <<"complex", ComplexNew>>,
      <<"complex", ComplexSet(ComplexNew, <<65, 233>>, 0, 6, FALSE)[1]>>,
      <<"animate", <<>>>>,
      <<"animate", <<SimpleNew>>>>,
      <<"animate", <<FrameX, SimpleNew>>>>,
      <<"generic", GenericFromMatrix(<<<<None, None>>, <<None, None>>>>)>>,
      <<"generic", GenericFromMatrix(<<<<Some(5), None>>, <<None, Some(200)>>>>)>> }

InitEntropy ==
    /\ \E o \in EntropyObjects : layout = o[1] /\ diagram = o[2]
    /\ fresh = FALSE
    /\ pc = "new"
    /\ ret = Idle
    /\ secret = Idle
    /\ flipat = 0
    /\ received = Idle
    /\ decoded = Idle
    /\ NoEntropyCall
    /\ NoMnemonic
    /\ NoBits
    /\ NoThreads
    /\ NoPwd
    /\ NoGeneric

\* diagram.to_entropy(salt) on a SimpleDiagram or a ComplexDiagram
DiagramToEntropyCall(saltArg) ==
    /\ layout \in {"simple", "complex"}
    /\ pc = "new"
    /\ \E bytes \in {IF layout = "simple" THEN SimpleToSecret(diagram)
                     ELSE ComplexToSecret(diagram, FALSE)} :
       \E r \in {DiagramToEntropy(bytes, saltArg)} :
           secret' = bytes /\ ret' = r[1] /\ calls' = r[2]
    /\ salt' = saltArg
    /\ pc' = "to_entropy"
    /\ UNCHANGED <<pwdVars, genVars, bitsVars, onceVars, mnemonicVars, layout, diagram, fresh, flipat, received, decoded>>

\* diagram.to_entropy(salt) on an AnimateDiagram
TraitToEntropyCall(saltArg) ==
    /\ layout = "animate"
    /\ pc = "new"
    /\ \E bytes \in {AnimateToBytes(diagram)} :
       \E r \in {TraitToEntropy(bytes, saltArg)} :
           secret' = bytes /\ ret' = r[1] /\ calls' = r[2]
    /\ salt' = saltArg
    /\ pc' = "to_entropy"
    /\ UNCHANGED <<pwdVars, genVars, bitsVars, onceVars, mnemonicVars, layout, diagram, fresh, flipat, received, decoded>>

\* diagram.to_entropy(salt) on a GenericDiagram<2, 2, u8>
GenericToEntropyCall(saltArg) ==
    /\ layout = "generic"
    /\ pc = "new"
    /\ \E bytes \in {RmpToVec(diagram)} :
       \E r \in {GenericToEntropy(bytes, saltArg)} :
           secret' = bytes /\ ret' = r[1] /\ calls' = r[2]
    /\ salt' = saltArg
    /\ pc' = "to_entropy"
    /\ UNCHANGED <<pwdVars, genVars, bitsVars, onceVars, mnemonicVars, layout, diagram, fresh, flipat, received, decoded>>

NextEntropy ==
    \/ \E s \in Salts : DiagramToEntropyCall(s)
    \/ \E s \in Salts : TraitToEntropyCall(s)
    \/ \E s \in Salts : GenericToEntropyCall(s)

SpecEntropy == InitEntropy /\ [][NextEntropy]_vars

\* what the implementation puts before the caller's salt
FixedSalt == IF layout = "animate" THEN DEFAULT_SALT ELSE <<>>

\* the result is the byte-wise XOR of the outputs of the two calls
IsXorOfCalls ==
    /\ Len(ret.val) = 32
    /\ \A i \in 1..32 : \A n \in 0..7 :
           BitOf(ret.val[i], n) = (BitOf(calls[1].out[i], n) + BitOf(calls[2].out[i], n)) % 2

\* the two calls take the secret followed by 0x01 and by 0x02
PasswordsOfCalls ==
    /\ Len(calls) = 2
    /\ calls[1].kdf = "scrypt" /\ calls[2].kdf # "scrypt"
    /\ calls[1].password = secret.val \o <<1>>
    /\ calls[2].password = secret.val \o <<2>>

\* C4: a successful to_entropy returns the byte-wise XOR of S1 and S2, S1
\* from the memory-hard KDF on secret + 0x01 and S2 from the second KDF on
\* secret + 0x02; the salt of S1 is the caller's salt followed by 0x01 and
\* the salt of S2 the caller's salt followed by 0x02, after the fixed bytes
\* DEFAULT_SALT in GenericDiagram::to_entropy of diagram/generic.rs and
\* after nothing in the other implementations.
EntropyFormula ==
    (pc = "to_entropy" /\ ret.tag = "Ok") =>
        /\ PasswordsOfCalls
        /\ calls[1].salt = FixedSalt \o salt \o <<1>>
        /\ calls[2].salt = FixedSalt \o salt \o <<2>>
        /\ IsXorOfCalls

\* to_entropy has returned for an AnimateDiagram and for the salt "a", 0x01
EntropyFormulaWitness ==
    /\ pc = "to_entropy" /\ ret.tag = "Ok" /\ layout = "animate"
    /\ salt = <<97, 1>>
    /\ calls[1].salt = DEFAULT_SALT \o <<97, 1, 1>>
    /\ ret.val # calls[1].out

\* C4 as stated: in every implementation the salt of S1 is the caller's salt
\* followed by 0x01 and the salt of S2 the caller's salt followed by 0x02,
\* nothing else added.
EntropyFormulaNothingAdded ==
    (pc = "to_entropy" /\ ret.tag = "Ok") =>
        /\ PasswordsOfCalls
        /\ calls[1].salt = salt \o <<1>>
        /\ calls[2].salt = salt \o <<2>>
        /\ IsXorOfCalls

(***************************************************************************)
(* BIP39 languages and wordlists.  A word is the sequence of its chars.    *)
(* The ten lists of 2048 words are data files (bip39/raw/*.txt); the lists *)
(* here have their shape: Korean words start with a Jamo, Japanese words   *)
(* with a Hiragana, Chinese words are one ideograph and the two Chinese    *)
(* lists share entries at equal indices, French and Spanish have words     *)
(* with accents, the other lists are ASCII, and French shares a hundred    *)
(* words with English at other indices.                                    *)
(***************************************************************************)
\* Language::all()
LanguagesAll ==
    <<"English", "Japanese", "Korean", "Spanish", "ChineseSimplified",
      "ChineseTraditional", "French", "Italian", "Czech", "Portuguese">>

Languages == {LanguagesAll[i] : i \in 1..Len(LanguagesAll)}

WordlistLen == 2048

\* the first letter of the words of a list in Latin script
LatinLetter(lang) ==
    CASE lang = "English" -> 101
      [] lang = "Italian" -> 105
      [] lang = "Czech" -> 99
      [] lang = "Portuguese" -> 112
      [] lang = "French" -> 102
      [] lang = "Spanish" -> 115

\* three letters 'a'..'p' spelling i in base 16
LatinDigits(i) == <<97 + (i \div 256), 97 + ((i \div 16) % 16), 97 + (i % 16)>>

LatinWord(lang, i) == <<LatinLetter(lang)>> \o LatinDigits(i)

\* the word at index i (from 0) of the list of lang
Wordlist(lang, i) ==
    CASE lang \in {"English", "Italian", "Czech", "Portuguese"} -> LatinWord(lang, i)
      [] lang = "Spanish" ->
            IF i % 16 = 15 THEN Append(LatinWord(lang, i), 243) ELSE LatinWord(lang, i)
      [] lang = "French" ->
            IF 1900 <= i /\ i < 2000 THEN LatinWord("English", 20 * (i - 1900))
            ELSE IF i % 16 = 15 THEN Append(LatinWord(lang, i), 233)
            ELSE LatinWord(lang, i)
      [] lang = "Korean" -> <<4352 + (i \div 128), 4449 + (i % 128)>>
      [] lang = "Japanese" -> <<12353 + (i \div 64), 12353 + (i % 64)>>
      [] lang = "ChineseSimplified" -> <<19968 + i>>
      [] lang = "ChineseTraditional" -> IF i % 8 < 5 THEN <<19968 + i>> ELSE <<28160 + i>>

\* the indices at which a list can hold the word w, from the shape of w
WordlistSlots(w) ==
    LET d == IF Len(w) >= 4
             THEN (w[2] - 97) * 256 + (w[3] - 97) * 16 + (w[4] - 97) ELSE 0 - 1
    IN  { i \in { d, 1900 + (d \div 20), w[1] - 19968, w[1] - 28160,
                  IF Len(w) >= 2 THEN (w[1] - 4352) * 128 + (w[2] - 4449) ELSE 0 - 1,
                  IF Len(w) >= 2 THEN (w[1] - 12353) * 64 + (w[2] - 12353) ELSE 0 - 1 } :
          0 <= i /\ i < WordlistLen }

\* Language::word_at
WordAt(lang, index) == IF index < 2048 THEN Some(Wordlist(lang, index)) ELSE None

\* Language::index_of: self.wordlist().position(|w| w == word)
IndexOf(lang, word) ==
    LET at == {i \in WordlistSlots(word) : Wordlist(lang, i) = word}
    IN  IF at = {} THEN None ELSE Some(CHOOSE i \in at : \A j \in at : i <= j)

IsAscii(word) == \A i \in 1..Len(word) : word[i] < 128

\* Language::detect
Detect(word) ==
    IF word = <<>> THEN <<>>
    ELSE LET ch    == word[1]
             langs == IF 4352 <= ch /\ ch <= 4607 THEN <<"Korean">>
                      ELSE IF 12352 <= ch /\ ch <= 12447 THEN <<"Japanese">>
                      ELSE IF 19968 <= ch /\ ch <= 40863
                           THEN <<"ChineseSimplified", "ChineseTraditional">>
                      ELSE IF IsAscii(word)
                           THEN <<"English", "Italian", "Czech", "Portuguese", "French", "Spanish">>
                      ELSE <<"French", "Spanish">>
         IN  SelectSeq(langs, LAMBDA lang : IndexOf(lang, word) # None)

(***************************************************************************)
(* Bits of bytes (xbits, an external crate): the most significant bit of   *)
(* a byte first.                                                           *)
(***************************************************************************)
\* bit k (from 1) of the bytes
BitAt(bytes, k) == (bytes[((k - 1) \div 8) + 1] \div (2^(7 - ((k - 1) % 8)))) % 2

\* bytes.bits().chunks(n): the values of the groups of n bits that are
\* complete
BitsChunks(bytes, n) ==
    <<>> \o [c \in 1..((8 * Len(bytes)) \div n) |->
                SumSeq([j \in 1..n |-> BitAt(bytes, (c - 1) * n + j) * (2^(n - j))])]

\* bit k (from 1) of the chunks of n bits laid end to end, 0 after the end
ChunkBitAt(chunks, n, k) ==
    IF k > n * Len(chunks) THEN 0
    ELSE (chunks[((k - 1) \div n) + 1] \div (2^(n - 1 - ((k - 1) % n)))) % 2

\* the chunks packed with their most significant bit last
FromBitsChunkLsb(chunks, n) ==
    <<>> \o [b \in 1..((n * Len(chunks) + 7) \div 8) |->
                SumSeq([j \in 1..8 |-> ChunkBitAt(chunks, n, 8 * (b - 1) + j) * (2^(j - 1))])]

\* Vec::from_bits_chunk(chunks, n): the chunks laid end to end, the last byte
\* filled with zero bits
FromBitsChunk(chunks, n) ==
    <<>> \o [b \in 1..((n * Len(chunks) + 7) \div 8) |->
                SumSeq([j \in 1..8 |-> ChunkBitAt(chunks, n, 8 * (b - 1) + j) * (2^(8 - j))])]

(***************************************************************************)
(* Mnemonic { words: Vec<String>, language: Language }                     *)
(***************************************************************************)
VALID_SIZES == {12, 15, 18, 21, 24}

\* the mask with one bit fewer kept
CheckMaskShort(size) == (255 * (2^(9 - (size \div 3)))) % 256

\* 0xff << (8 - size / 3) on u8
CheckMask(size) == (255 * (2^(8 - (size \div 3)))) % 256

\* language.word_at(i).unwrap_or_default() for every index
WordsOf(lang, indices) ==
    [i \in 1..Len(indices) |->
        IF WordAt(lang, indices[i]) = None THEN <<>> ELSE WordAt(lang, indices[i])[1]]

\* Mnemonic::new.  Errors are Bip39Error values.
MnemonicNew(ent, lang) ==
    IF Len(ent) \notin {16, 20, 24, 28, 32} THEN Err("InvalidSize", "")
    ELSE Ok([words |-> WordsOf(lang,
                 SubSeq(BitsChunks(Append(ent, And8(Sha256(ent)[1], CheckMask((Len(ent) \div 4) * 3))), 11),
                        1, (Len(ent) \div 4) * 3)),
             language |-> lang])

\* Indices::indices for Language
IndicesIn(lang, words) ==
    IF \E i \in 1..Len(words) : IndexOf(lang, words[i]) = None
    THEN Err("InvalidLanguage", "")
    ELSE Ok([i \in 1..Len(words) |-> IndexOf(lang, words[i])[1]])

\* the checksum test of verify_checksum on the packed bytes
ChecksumMatches(bytes, size) ==
    And8(Sha256(SubSeq(bytes, 1, Len(bytes) - 1))[1], CheckMask(size)) = bytes[Len(bytes)]

\* Mnemonic::verify_checksum
VerifyChecksum(indices) ==
    IF Len(indices) \notin VALID_SIZES THEN Err("InvalidSize", "")
    ELSE IF ~ChecksumMatches(FromBitsChunk(indices, 11), Len(indices))
         THEN Err("InvalidChecksum", "")
    ELSE Ok(<<>>)

\* acc.retain(|x| v.contains(x))
Retain(acc, v) == SelectSeq(acc, LAMBDA x : \E i \in 1..Len(v) : v[i] = x)

\* the reduce of Mnemonic::detect_language over the words i..j; the first
\* half is evaluated before the second is started
RECURSIVE DetectReduce(_, _, _, _)
DetectReduce(acc, words, i, j) ==
    IF i > j THEN acc
    ELSE IF i = j THEN Retain(acc, Detect(words[i]))
    ELSE LET h == DetectReduce(acc, words, i, (i + j) \div 2)
         IN  IF Len(h) >= 0 THEN DetectReduce(h, words, ((i + j) \div 2) + 1, j) ELSE acc

\* Mnemonic::detect_language
DetectLanguage(words) ==
    IF words = <<>> THEN <<>> ELSE DetectReduce(Detect(words[1]), words, 2, Len(words))

\* the chars with the Unicode property White_Space
WhiteSpace ==
    {9, 10, 11, 12, 13, 32, 133, 160, 5760, 8232, 8233, 8239, 8287, 12288} \cup (8192..8202)

\* a word of s starts at i: no white space at i, and white space or nothing
\* before it
IsWordStart(s, i) == s[i] \notin WhiteSpace /\ (i = 1 \/ s[i - 1] \in WhiteSpace)

\* where the word that starts at i ends: white space or nothing after it
WordEnd(s, i) ==
    CHOOSE j \in i..Len(s) :
        /\ \A t \in i..j : s[t] \notin WhiteSpace
        /\ j = Len(s) \/ s[j + 1] \in WhiteSpace

\* str::split_whitespace: the maximal runs of chars that are not white space
SplitWhitespace(s) ==
    LET starts == SelectSeq(<<>> \o [i \in 1..Len(s) |-> i], LAMBDA i : IsWordStart(s, i))
    IN  <<>> \o [k \in 1..Len(starts) |-> SubSeq(s, starts[k], WordEnd(s, starts[k]))]

\* the languages whose list holds the words, the checksum not looked at
RetainFound(languages, words) ==
    SelectSeq(languages, LAMBDA lang : IndicesIn(lang, words).tag = "Ok")

\* the languages that keep the words: indices found and checksum valid
RetainValid(languages, words) ==
    SelectSeq(languages, LAMBDA lang :
        /\ IndicesIn(lang, words).tag = "Ok"
        /\ VerifyChecksum(IndicesIn(lang, words).val).tag = "Ok")

\* the match without the arm for the two Chinese lists
FromStrMatchNoCollapse(languages, words) ==
    IF Len(languages) = 0 THEN Err("InvalidChecksum", "")
    ELSE IF Len(languages) = 1 THEN Ok([words |-> words, language |-> languages[1]])
    ELSE Err("AmbiguousLanguages", languages)

\* the match on languages.len() of from_str
FromStrMatch(languages, words) ==
    IF Len(languages) = 0 THEN Err("InvalidChecksum", "")
    ELSE IF Len(languages) = 1 THEN Ok([words |-> words, language |-> languages[1]])
    ELSE IF \/ languages = <<"ChineseSimplified", "ChineseTraditional">>
            \/ languages = <<"ChineseTraditional", "ChineseSimplified">>
         THEN Ok([words |-> words, language |-> "ChineseSimplified"])
    ELSE Err("AmbiguousLanguages", languages)

\* from_str without the test of the number of words
FromStrNoSizeTest(s) ==
    FromStrMatch(RetainValid(DetectLanguage(SplitWhitespace(s)), SplitWhitespace(s)),
                 SplitWhitespace(s))

\* Mnemonic::from_str
FromStr(s) ==
    IF Len(SplitWhitespace(s)) \notin VALID_SIZES THEN Err("InvalidSize", "")
    ELSE FromStrMatch(RetainValid(DetectLanguage(SplitWhitespace(s)), SplitWhitespace(s)),
                      SplitWhitespace(s))

\* self.words.join(" ")
Join(words) ==
    Concat([i \in 1..Len(words) |-> IF i = 1 THEN words[i] ELSE <<32>> \o words[i]])

\* Mnemonic::entropy; the unwrap of index_of panics on a word not in the list
MnemonicEntropy(m) ==
    IF IndicesIn(m.language, m.words).tag # "Ok"
    THEN Panic("called Option::unwrap on a None value")
    ELSE Ok(SubSeq(FromBitsChunk(IndicesIn(m.language, m.words).val, 11), 1,
                   Len(FromBitsChunk(IndicesIn(m.language, m.words).val, 11)) - 1))

(***************************************************************************)
(* A mnemonic is made from an entropy and a language, written as a phrase, *)
(* parsed back, and asked for its entropy.                                 *)
(***************************************************************************)
Entropy16 == <<172, 122, 3, 92, 100, 215, 18, 58, 51, 113, 91, 25, 40, 54, 147, 128>>

Entropy20 ==
    <<193, 204, 182, 243, 16, 122, 35, 231, 29, 188, 222, 237, 195, 216, 92, 26, 164, 242, 6, 76>>

Entropy24 ==
    <<10, 133, 160, 255, 239, 47, 147, 58, 131, 66, 14, 114, 197, 255, 122, 182, 168, 129, 69,
      154, 190, 126, 158, 36>>

Entropy28 ==
    <<12, 13, 153, 172, 226, 134, 152, 82, 193, 186, 117, 45, 235, 52, 59, 111, 131, 16, 154,
      250, 248, 215, 240, 9, 180, 144, 16, 237>>

Entropy32 ==
    <<27, 249, 201, 1, 164, 181, 101, 44, 9, 243, 183, 127, 82, 44, 200, 15, 191, 195, 52, 22,
      18, 196, 231, 9, 75, 22, 176, 63, 45, 84, 98, 44>>

\* an entropy whose twelve English words are all words of the French list
\* too and pass the checksum at their French indices
EntropyShared == <<5, 18, 113, 194, 26, 76, 48, 70, 39, 96, 140, 67, 158, 161, 104, 1>>

\* an entropy whose twelve Chinese words are in both Chinese lists
EntropyChinese == <<250, 60, 109, 110, 66, 2, 68, 5, 5, 39, 89, 134, 135, 107, 57, 48>>

\* an entropy of a length that is not allowed
EntropyShort == <<1, 2, 3>>

Entropies ==
    {Entropy16, Entropy20, Entropy24, Entropy28, Entropy32, EntropyShared, EntropyChinese,
     EntropyShort}

InitMnemonic ==
    /\ layout = "mnemonic" /\ diagram = Idle /\ fresh = FALSE
    /\ pc = "start"
    /\ ret = Idle /\ secret = Idle /\ flipat = 0 /\ received = Idle /\ decoded = Idle
    /\ NoEntropyCall
    /\ entropy \in Entropies
    /\ language \in Languages
    /\ mnemonic = Idle /\ phrase = Idle /\ parsed = Idle /\ recovered = Idle
    /\ NoBits
    /\ NoThreads
    /\ NoPwd
    /\ NoGeneric

\* Mnemonic::new(&entropy, language)
MnemonicNewCall ==
    /\ pc = "start"
    /\ mnemonic' = MnemonicNew(entropy, language)
    /\ pc' = "new"
    /\ UNCHANGED <<pwdVars, genVars, bitsVars, onceVars, diagramVars, kdfVars, entropy, language, phrase, parsed, recovered>>

\* mnemonic.to_string()
ToStringCall ==
    /\ pc = "new"
    /\ mnemonic.tag = "Ok"
    /\ phrase' = Join(mnemonic.val.words)
    /\ pc' = "to_string"
    /\ UNCHANGED <<pwdVars, genVars, bitsVars, onceVars, diagramVars, kdfVars, entropy, language, mnemonic, parsed, recovered>>

\* Mnemonic::from_str(&phrase)
FromStrCall ==
    /\ pc = "to_string"
    /\ parsed' = FromStr(phrase)
    /\ pc' = "from_str"
    /\ UNCHANGED <<pwdVars, genVars, bitsVars, onceVars, diagramVars, kdfVars, entropy, language, mnemonic, phrase, recovered>>

\* parsed.entropy()
EntropyCall ==
    /\ pc = "from_str"
    /\ parsed.tag = "Ok"
    /\ recovered' = MnemonicEntropy(parsed.val)
    /\ pc' = "entropy"
    /\ UNCHANGED <<pwdVars, genVars, bitsVars, onceVars, diagramVars, kdfVars, entropy, language, mnemonic, phrase, parsed>>

NextMnemonic ==
    \/ MnemonicNewCall
    \/ ToStringCall
    \/ FromStrCall
    \/ EntropyCall

SpecMnemonic == InitMnemonic /\ [][NextMnemonic]_vars

\* the phrase has been parsed, from an entropy of an allowed length
PhraseParsed ==
    /\ layout = "mnemonic"
    /\ Len(entropy) \in {16, 20, 24, 28, 32}
    /\ pc \in {"from_str", "entropy"}

\* the words of the mnemonic are all in the list of a second language, not
\* the other Chinese list, and pass the checksum at their indices there
ValidElsewhere ==
    \E lang \in Languages \ {language} :
        /\ {lang, language} # {"ChineseSimplified", "ChineseTraditional"}
        /\ IndicesIn(lang, mnemonic.val.words).tag = "Ok"
        /\ VerifyChecksum(IndicesIn(lang, mnemonic.val.words).val).tag = "Ok"

\* C3: for an entropy e of 16, 20, 24, 28 or 32 bytes and any of the ten
\* languages, from_str on the phrase of Mnemonic::new(e, lang) succeeds and
\* the entropy() of the result is e, unless the words are all in the list of
\* a second language, not the other Chinese list, and pass the checksum
\* there too.
MnemonicRoundTrip ==
    (PhraseParsed /\ ~ValidElsewhere) =>
        /\ parsed.tag = "Ok"
        /\ pc = "entropy" => recovered = Ok(entropy)

\* a Traditional Chinese phrase of words that are in both Chinese lists has
\* been parsed as Simplified Chinese and has given its entropy back
MnemonicRoundTripWitness ==
    /\ PhraseParsed /\ pc = "entropy"
    /\ language = "ChineseTraditional" /\ entropy = EntropyChinese
    /\ parsed.tag = "Ok" /\ parsed.val.language = "ChineseSimplified"
    /\ recovered = Ok(entropy)

\* C3 as stated: for every entropy of an allowed length and every language,
\* from_str on the phrase succeeds and entropy() of the result is the entropy.
MnemonicRoundTripEvery ==
    PhraseParsed =>
        /\ parsed.tag = "Ok"
        /\ pc = "entropy" => recovered = Ok(entropy)

(***************************************************************************)
(* from_secret on bytes that no to_secret produced: a caller puts a prefix *)
(* and seven indices bytes together, appends the checksum byte of these,   *)
(* and hands the result to from_secret.                                    *)
(***************************************************************************)
\* what precedes the indices: one byte, 'A' and a length byte 1, a byte that
\* is not UTF-8 and a length byte 1
DecodePrefixes == {<<65>>, <<65, 1>>, <<255, 1>>}

\* bits 0..6 of the seven indices bytes: no cell, one cell, three cells
DecodeMarks ==
    {<<0, 0, 0, 0, 0, 0, 0>>, <<1, 0, 0, 0, 0, 0, 0>>, <<1, 0, 0, 0, 1, 0, 1>>}

\* the bytes before the indices, with the version flags of one layout: chars
\* and length bytes that agree with three cells or with one, a length byte 0,
\* length bytes whose sum is not the number of bytes before them, and one
\* cell of 51 and of 255 bytes
LengthPrefixes ==
    {<<65, 66, 67>>, <<65, 0>>, <<65, 66, 1>>, <<65, 66, 67, 68, 1, 1, 2>>,
     <<65, 226, 130, 172, 66, 1, 3, 1>>, <<65, 66, 67, 2, 0, 1>>, <<65, 66, 67, 1, 1, 2>>,
     [i \in 1..52 |-> IF i = 52 THEN 51 ELSE 65],
     [i \in 1..256 |-> IF i = 256 THEN 255 ELSE 65]}

\* the seven indices bytes with bit 7 of byte i (from 0) set where bit i of
\* tops is set
DecodeIndices(marks, tops) ==
    [i \in 1..7 |-> marks[i] + VERSION_MASK * ((tops \div (2^(i - 1))) % 2)]

InitDecode ==
    /\ layout \in {"simple", "complex"}
    /\ diagram = Idle /\ fresh = FALSE
    /\ pc = "body"
    /\ ret = Idle /\ secret = Idle /\ flipat = 0
    /\ \/ \E prefix \in DecodePrefixes, marks \in DecodeMarks, tops \in 0..127 :
              received = prefix \o DecodeIndices(marks, tops)
       \/ \E prefix \in LengthPrefixes, marks \in DecodeMarks, tops \in 0..1 :
              received = prefix \o DecodeIndices(marks, tops)
    /\ decoded = Idle
    /\ NoEntropyCall
    /\ NoMnemonic
    /\ NoBits
    /\ NoThreads
    /\ NoPwd
    /\ NoGeneric

\* the caller appends the checksum byte of the bytes so far
SealCall ==
    /\ pc = "body"
    /\ received' = Append(received, CheckByte(received))
    /\ pc' = "sealed"
    /\ UNCHANGED <<pwdVars, genVars, bitsVars, onceVars, kdfVars, mnemonicVars, layout, diagram, fresh, ret, secret, flipat, decoded>>

\* from_secret(received)
DecodeCall ==
    /\ pc = "sealed"
    /\ decoded' = IF layout = "simple" THEN SimpleFromSecret(received)
                  ELSE ComplexFromSecret(received)
    /\ pc' = "from_secret"
    /\ UNCHANGED <<pwdVars, genVars, bitsVars, onceVars, kdfVars, mnemonicVars, layout, diagram, fresh, ret, secret, flipat, received>>

NextDecode ==
    \/ SealCall
    \/ DecodeCall

SpecDecode == InitDecode /\ [][NextDecode]_vars

\* the seven indices bytes of the bytes handed to from_secret
ReceivedIndices == SubSeq(received, Len(received) - 7, Len(received) - 1)

\* C11 as stated: from_secret on any bytes, those with a correct checksum and
\* inconsistent indices or length fields included, returns a diagram or an
\* error value; there is no other outcome.
DecodeTotal ==
    pc = "from_secret" => decoded.tag \in {"Ok", "Err"}

\* C13: SimpleDiagram::from_secret on more than 8 bytes that end in their
\* checksum byte, with bit 7 set in any of the seven indices bytes, returns
\* InvalidVersion, whatever the bytes before the indices are.
SimpleVersionCheck ==
    (/\ layout = "simple" /\ pc = "from_secret" /\ flipat = 0
     /\ Len(received) > 8
     /\ \E i \in 1..7 : BitOf(ReceivedIndices[i], 7) = 1)
        => decoded = Err("InvalidVersion", "")

\* bytes that are not UTF-8, before indices whose last byte has bit 7 set,
\* have been rejected for their version
SimpleVersionCheckWitness ==
    /\ layout = "simple" /\ pc = "from_secret"
    /\ SubSeq(received, 1, 2) = <<255, 1>>
    /\ ReceivedIndices = <<1, 0, 0, 0, 1, 0, 129>>
    /\ decoded = Err("InvalidVersion", "")

\* C14: ComplexDiagram::from_secret on at least 10 bytes that end in their
\* checksum byte returns InvalidVersion exactly when it is not the case that
\* bit 7 of indices[0] is 1 and bit 7 of each of indices[1..6] is 0.
ComplexVersionCheck ==
    (/\ layout = "complex" /\ pc = "from_secret" /\ flipat = 0
     /\ Len(received) >= 10)
        => (decoded = Err("InvalidVersion", "")
                <=> ~(/\ BitOf(ReceivedIndices[1], 7) = 1
                      /\ \A i \in 2..7 : BitOf(ReceivedIndices[i], 7) = 0))

\* one string has been decoded from bytes whose indices[0] alone has bit 7 set
ComplexVersionCheckWitness ==
    /\ layout = "complex" /\ pc = "from_secret"
    /\ received = <<65, 1, 129, 0, 0, 0, 0, 0, 0, 8>>
    /\ decoded = Ok([ComplexNew EXCEPT ![0][6] = <<65>>])

\* strings around the limit of a cell: 50 chars of one byte and of four
\* bytes each, 51 and 52 chars
LimitStrs ==
    {Str50, [i \in 1..CELL_CHARS_LIMIT |-> 128522], Str51, [i \in 1..(CELL_CHARS_LIMIT + 2) |-> 233]}

\* C12: on any ComplexDiagram, set with a string of exactly 50 chars stores
\* it in the addressed cell and returns Ok; set with a string of 51 or more
\* chars returns the overflow error and leaves every cell as it was.
ComplexSetLimit ==
    (layout = "complex" /\ pc \in {"new", "set"}) =>
        \A p \in Positions, str \in LimitStrs, debug \in BOOLEAN :
            /\ Len(str) = 50 =>
                   ComplexSet(diagram, str, p[1], p[2], debug)
                       = <<[diagram EXCEPT ![p[1]][p[2]] = str], Ok(<<>>)>>
            /\ Len(str) >= 51 =>
                   ComplexSet(diagram, str, p[1], p[2], debug)
                       = <<diagram, Err("Overflows", "chars count <= 50")>>

\* a string of 50 chars has been stored, and a later set has returned the
\* overflow error and left it where it was
ComplexSetLimitWitness ==
    /\ layout = "complex" /\ pc = "set"
    /\ ret = Err("Overflows", "chars count <= 50")
    /\ diagram = [ComplexNew EXCEPT ![0][6] = Str50]

\* SHA-256(ent)[0] with its top Len(ent) / 4 bits kept and the rest zero
TopBitsOfDigest(ent) ==
    LET low == 2^(8 - (Len(ent) \div 4))
    IN  (Sha256(ent)[1] \div low) * low

\* the value of bits 11k .. 11k+10 of the bytes, the first bit of a byte its
\* most significant and the first bit of the eleven the most significant
ElevenBits(bytes, k) ==
    SumSeq([j \in 1..11 |->
        BitOf(bytes[((11 * k + j - 1) \div 8) + 1], 7 - ((11 * k + j - 1) % 8)) * (2^(11 - j))])

\* C15: Mnemonic::new on an entropy of L bytes, L in {16, 20, 24, 28, 32},
\* yields 3L/4 words, word k the entry of the language's list at the index
\* that bits 11k..11k+10 of the entropy followed by the checksum byte form,
\* the checksum byte being SHA-256(entropy)[0] with its top L/4 bits kept;
\* an entropy of any other length is rejected with InvalidSize.
MnemonicEncoding ==
    (layout = "mnemonic" /\ pc = "new") =>
        IF Len(entropy) \in {16, 20, 24, 28, 32}
        THEN /\ mnemonic.tag = "Ok"
             /\ mnemonic.val.language = language
             /\ Len(mnemonic.val.words) = (3 * Len(entropy)) \div 4
             /\ \A k \in 0..(((3 * Len(entropy)) \div 4) - 1) :
                    mnemonic.val.words[k + 1]
                        = Wordlist(language,
                                   ElevenBits(Append(entropy, TopBitsOfDigest(entropy)), k))
        ELSE mnemonic = Err("InvalidSize", "")

\* a mnemonic of fifteen Japanese words has been made from twenty bytes
MnemonicEncodingWitness ==
    /\ layout = "mnemonic" /\ pc = "new"
    /\ entropy = Entropy20 /\ language = "Japanese"
    /\ mnemonic.tag = "Ok" /\ Len(mnemonic.val.words) = 15

(***************************************************************************)
(* from_str on phrases a caller writes: the words of a mnemonic as they    *)
(* are, with a word less or a word more, with a word no list holds, with   *)
(* two words exchanged, with a word of another script, or with other white *)
(* space around them.                                                      *)
(***************************************************************************)
\* <<entropy, language>> of the mnemonics whose words the phrases are made of
ParseBases ==
    {<<Entropy16, "English">>, <<Entropy16, "Korean">>, <<Entropy20, "Spanish">>,
     <<Entropy24, "Japanese">>, <<Entropy28, "Czech">>, <<Entropy32, "ChineseTraditional">>,
     <<EntropyShared, "English">>, <<EntropyShared, "French">>,
     <<EntropyChinese, "ChineseSimplified">>, <<EntropyChinese, "ChineseTraditional">>}

MaxEdit == 7

\* the phrase a caller makes of the words
PhraseEdit(words, edit) ==
    CASE edit = 0 -> Join(words)
      [] edit = 1 -> Join(SubSeq(words, 1, Len(words) - 1))
      [] edit = 2 -> Join(Append(words, words[1]))
      [] edit = 3 -> Join([words EXCEPT ![1] = <<63>>])
      [] edit = 4 -> Join(SubSeq([words EXCEPT ![1] = <<63>>], 1, Len(words) - 1))
      [] edit = 5 -> Join([words EXCEPT ![1] = words[Len(words)], ![Len(words)] = words[1]])
      [] edit = 6 -> Join([words EXCEPT ![2] = Wordlist("Korean", 0)])
      [] edit = 7 -> <<9, 32>> \o Join(words) \o <<12288, 10>>

\* the words of the mnemonics of ParseBases
ParseWords == {MnemonicNew(b[1], b[2]).val.words : b \in ParseBases}

Phrases == {PhraseEdit(words, edit) : words \in ParseWords, edit \in 0..MaxEdit}

InitParse ==
    /\ layout = "parse" /\ diagram = Idle /\ fresh = FALSE
    /\ pc = "to_string"
    /\ ret = Idle /\ secret = Idle /\ flipat = 0 /\ received = Idle /\ decoded = Idle
    /\ NoEntropyCall
    /\ entropy = Idle /\ language = Idle /\ mnemonic = Idle
    /\ phrase \in Phrases
    /\ parsed = Idle /\ recovered = Idle
    /\ NoBits
    /\ NoThreads
    /\ NoPwd
    /\ NoGeneric

NextParse ==
    \/ FromStrCall
    \/ EntropyCall

SpecParse == InitParse /\ [][NextParse]_vars

\* the number of whitespace-separated words of the phrase: the positions
\* where a word starts
PhraseWordCount ==
    Cardinality({i \in 1..Len(phrase) :
        phrase[i] \notin WhiteSpace /\ (i = 1 \/ phrase[i - 1] \in WhiteSpace)})

\* C16: from_str answers InvalidSize for every phrase whose number of
\* whitespace-separated words is not 12, 15, 18, 21 or 24, also when a word
\* is in no list or the checksum would fail as well.
FromStrSizeFirst ==
    (layout = "parse" /\ pc # "to_string" /\ PhraseWordCount \notin VALID_SIZES)
        => parsed = Err("InvalidSize", "")

\* a phrase of eleven words, the first of them in no list, was refused for
\* its size
FromStrSizeFirstWitness ==
    /\ layout = "parse" /\ pc = "from_str"
    /\ PhraseWordCount = 11
    /\ phrase[1] = 63 /\ phrase[2] = 32
    /\ parsed = Err("InvalidSize", "")

\* the languages whose list holds every word of the phrase and whose indices
\* pass the checksum
PhraseValidIn ==
    {lang \in Languages :
        /\ IndicesIn(lang, SplitWhitespace(phrase)).tag = "Ok"
        /\ VerifyChecksum(IndicesIn(lang, SplitWhitespace(phrase)).val).tag = "Ok"}

\* C17: when the languages that hold every word and pass the checksum are
\* exactly the two Chinese ones, from_str succeeds with ChineseSimplified and
\* the words as they were written.
ChineseCollapse ==
    (layout = "parse" /\ pc # "to_string"
        /\ PhraseValidIn = {"ChineseSimplified", "ChineseTraditional"})
        => parsed = Ok([words |-> SplitWhitespace(phrase), language |-> "ChineseSimplified"])

\* the twelve words of the Traditional mnemonic of EntropyChinese, which the
\* Simplified list holds too, were parsed as ChineseSimplified
ChineseCollapseWitness ==
    /\ layout = "parse" /\ pc = "from_str"
    /\ phrase = Join(MnemonicNew(EntropyChinese, "ChineseTraditional").val.words)
    /\ PhraseValidIn = {"ChineseSimplified", "ChineseTraditional"}
    /\ parsed = Ok([words |-> MnemonicNew(EntropyChinese, "ChineseTraditional").val.words,
                    language |-> "ChineseSimplified"])

\* the languages that Language::detect names for every word of the phrase,
\* that hold every word and pass the checksum
PhraseSurvivors ==
    {lang \in PhraseValidIn :
        \A k \in 1..Len(SplitWhitespace(phrase)) :
            \E i \in 1..Len(Detect(SplitWhitespace(phrase)[k])) :
                Detect(SplitWhitespace(phrase)[k])[i] = lang}

\* C18: for a phrase of valid size the result of from_str follows from the
\* set of surviving languages: one survivor is the language of the success,
\* none gives InvalidChecksum, two or more other than the Chinese pair give
\* AmbiguousLanguages with exactly the survivors, and no success names a
\* language that did not survive.
FromStrBySurvivors ==
    (layout = "parse" /\ pc # "to_string" /\ PhraseWordCount \in VALID_SIZES) =>
        /\ Cardinality(PhraseSurvivors) = 1 =>
              /\ parsed.tag = "Ok"
              /\ parsed.val.language \in PhraseSurvivors
        /\ PhraseSurvivors = {} => parsed = Err("InvalidChecksum", "")
        /\ (Cardinality(PhraseSurvivors) >= 2
              /\ PhraseSurvivors # {"ChineseSimplified", "ChineseTraditional"}) =>
              /\ parsed.tag = "Err" /\ parsed.kind = "AmbiguousLanguages"
              /\ {parsed.msg[i] : i \in 1..Len(parsed.msg)} = PhraseSurvivors
              /\ Len(parsed.msg) = Cardinality(PhraseSurvivors)
        /\ parsed.tag = "Ok" => parsed.val.language \in PhraseSurvivors

\* a phrase of twelve known words in exchanged order, which no language
\* validates, was refused with InvalidChecksum
FromStrBySurvivorsWitness ==
    /\ layout = "parse" /\ pc = "from_str"
    /\ PhraseWordCount = 12
    /\ phrase = PhraseEdit(MnemonicNew(Entropy16, "English").val.words, 5)
    /\ \A k \in 1..12 : Detect(SplitWhitespace(phrase)[k]) # <<>>
    /\ PhraseSurvivors = {}
    /\ parsed = Err("InvalidChecksum", "")

(***************************************************************************)
(* The bit operations of bits.rs on byte strings and boolean sequences.    *)
(***************************************************************************)
\* self[i], and 0 where window_value writes 0: i is counted from 0
WindowByte(s, i) == IF i < Len(s) THEN s[i + 1] ELSE 0

\* window_value: the four bytes from i as a big-endian u32, zeros after the
\* end of the bytes; the u32 is kept as its two 16-bit halves
WindowValue(s, i) ==
    [hi |-> WindowByte(s, i) * 256 + WindowByte(s, i + 1),
     lo |-> WindowByte(s, i + 2) * 256 + WindowByte(s, i + 3)]

\* the shift and mask taken on the low half of the window only
ShiftMaskLowHalf(w, sh, n) == (w.lo \div (2^(sh % 16))) % (2^n)

\* ((w >> sh) & bit_mask) as u16 where bit_mask has the n low bits set
ShiftMask(w, sh, n) ==
    IF sh >= 16 THEN (w.hi \div (2^(sh - 16))) % (2^n)
    ELSE ((IF n > 16 - sh THEN (w.hi % (2^(n - (16 - sh)))) * (2^(16 - sh)) ELSE 0)
          + (w.lo \div (2^sh))) % (2^n)

\* the while loop of the closure of bit_chunks for the window at byte i: it
\* runs while start + n <= end and end < len * 8 + n, each turn adding n to
\* start and pushing the n bits of the window that end at start
ChunksOfWindow(s, n, i, start) ==
    LET end   == i * 8 + 32
        turns == IF start + n <= end /\ end < Len(s) * 8 + n
                 THEN (end - start) \div n ELSE 0
    IN  [start |-> start + turns * n,
         vs    |-> [t \in 1..turns |->
                       ShiftMask(WindowValue(s, i), end - (start + t * n), n)]]

\* the closure of bit_chunks at byte i; st is what the closures before i
\* left: [tag, start, vs]
ChunksStep(s, n, i, st) ==
    IF st.tag # "Ok" THEN st
    ELSE IF ~(i * 8 <= st.start /\ st.start <= i * 8 + 32)
         THEN [tag |-> "Panic", start |-> st.start, vs |-> st.vs]
    ELSE LET w == ChunksOfWindow(s, n, i, st.start)
         IN  [tag |-> "Ok", start |-> w.start, vs |-> st.vs \o w.vs]

\* the flat_map of bit_chunks over the bytes i..j; the first half is
\* evaluated before the second is started
RECURSIVE ChunksFrom(_, _, _, _, _)
ChunksFrom(s, n, i, j, st) ==
    IF i > j THEN st
    ELSE IF i = j THEN ChunksStep(s, n, i, st)
    ELSE LET h == ChunksFrom(s, n, i, (i + j) \div 2, st)
         IN  IF Len(h.vs) >= 0 THEN ChunksFrom(s, n, ((i + j) \div 2) + 1, j, h) ELSE st

\* bit_chunks(n) collected: the values, or the panic of an assertion
BitChunks(s, n) ==
    IF ~(n <= 16) THEN Panic("assertion failed: n <= 16")
    ELSE LET st == ChunksFrom(s, n, 0, Len(s) - 1, [tag |-> "Ok", start |-> 0, vs |-> <<>>])
         IN  IF st.tag = "Ok" THEN Ok(st.vs)
             ELSE Panic("assertion failed: i * 8 <= start && start <= i * 8 + 32")

\* bit_iter collected: the eight bits of each byte, the most significant first
BitIter(s) ==
    <<>> \o [k \in 1..(8 * Len(s)) |-> BitOf(s[((k - 1) \div 8) + 1], 7 - ((k - 1) % 8)) = 1]

MaxBytes == 6
MaxWidth == 17
MaxBits == 10

\* the byte strings bit_chunks is called on
BitsByteStrings == UNION {[1..len -> {90, 255}] : len \in 0..MaxBytes}

\* the boolean sequences to_bits is called on
BitsBoolStrings == UNION {[1..len -> BOOLEAN] : len \in 0..MaxBits}

InitBits ==
    /\ layout = "bits" /\ diagram = Idle /\ fresh = FALSE
    /\ pc = "start"
    /\ ret = Idle /\ secret = Idle /\ flipat = 0 /\ received = Idle /\ decoded = Idle
    /\ NoEntropyCall
    /\ NoMnemonic
    /\ \/ bytesIn \in BitsByteStrings /\ width \in 1..MaxWidth /\ bitsIn = Idle
       \/ bitsIn \in BitsBoolStrings /\ bytesIn = Idle /\ width = 0
    /\ chunked = Idle /\ packed = Idle /\ unpacked = Idle
    /\ NoThreads
    /\ NoPwd
    /\ NoGeneric

\* bytes.bit_chunks(n).collect()
BitChunksCall ==
    /\ pc = "start"
    /\ width > 0
    /\ chunked' = BitChunks(bytesIn, width)
    /\ pc' = "bit_chunks"
    /\ UNCHANGED <<pwdVars, genVars, onceVars, diagramVars, kdfVars, mnemonicVars, bitsIn, bytesIn, width, packed, unpacked>>

\* bits.into_iter().to_bits(), in a build with overflow checks or without
ToBitsCall ==
    /\ pc = "start"
    /\ width = 0
    /\ \E debug \in BOOLEAN : packed' = BitFrom(bitsIn, debug)
    /\ pc' = "to_bits"
    /\ UNCHANGED <<pwdVars, genVars, onceVars, diagramVars, kdfVars, mnemonicVars, bitsIn, bytesIn, width, chunked, unpacked>>

\* packed.bit_iter().collect()
BitIterCall ==
    /\ pc = "to_bits"
    /\ packed.tag = "Ok"
    /\ unpacked' = BitIter(packed.val)
    /\ pc' = "bit_iter"
    /\ UNCHANGED <<pwdVars, genVars, onceVars, diagramVars, kdfVars, mnemonicVars, bitsIn, bytesIn, width, chunked, packed>>

NextBits ==
    \/ BitChunksCall
    \/ ToBitsCall
    \/ BitIterCall

SpecBits == InitBits /\ [][NextBits]_vars

\* C19: for every byte string and every width n from 1 to 16, bit_chunks(n)
\* yields floor((8 * len + n - 1) / n) values: the data bits and n - 1 zero
\* bits after them.
BitChunksCount ==
    (layout = "bits" /\ pc = "bit_chunks" /\ width \in 1..16) =>
        /\ chunked.tag = "Ok"
        /\ Len(chunked.val) = (8 * Len(bytesIn) + width - 1) \div width

\* C20: to_bits of L booleans returns ceil(L / 8) bytes, input bit i being
\* bit 7 - (i mod 8) of byte floor(i / 8) and every later bit 0, and bit_iter
\* over these bytes gives the input followed by false values only.
PackMsbFirst ==
    (layout = "bits" /\ pc \in {"to_bits", "bit_iter"}) =>
        /\ packed.tag = "Ok"
        /\ Len(packed.val) = (Len(bitsIn) + 7) \div 8
        /\ \A i \in 0..(8 * Len(packed.val) - 1) :
              BitOf(packed.val[(i \div 8) + 1], 7 - (i % 8))
                  = IF i < Len(bitsIn) /\ bitsIn[i + 1] THEN 1 ELSE 0
        /\ pc = "bit_iter" =>
              /\ Len(unpacked) = 8 * Len(packed.val)
              /\ SubSeq(unpacked, 1, Len(bitsIn)) = bitsIn
              /\ \A k \in (Len(bitsIn) + 1)..Len(unpacked) : unpacked[k] = FALSE

(***************************************************************************)
(* Language::index_of of words/mod.rs: threads look words up in the map of *)
(* one language, which WORD_DICS[lang].get_or_init builds on first use.    *)
(* OnceLock::get_or_init is the standard library's: it returns the value   *)
(* when the cell is complete; otherwise one caller moves the cell from     *)
(* incomplete to running and runs the closure, and the callers that find   *)
(* it running wait until it is complete.                                   *)
(***************************************************************************)
Threads == 1..3

\* the entries HashMap::from_iter puts in between two steps of other threads
BuildStride == 1024

\* the languages whose map the threads ask for
OnceLanguages == {"English", "Korean", "French"}

\* the words looked up: the first and the last of the list, a word of the
\* English list that the French list holds too, and a word of no list
OnceWords(lang) == {Wordlist(lang, 0), Wordlist(lang, WordlistLen - 1), Wordlist("English", 20), <<63>>}

\* a caller that finds the cell in any state but complete runs the closure
MayStartInitUnguarded(state) == state # "complete"

\* Once::call: the caller that finds the cell incomplete runs the closure
MayStartInit(state) == state = "incomplete"

\* dic.get(word).copied() on the map made of the first k entries of the
\* list: from_iter keeps the last index of a word
DicGet(k, lang, word) ==
    LET at == {i \in WordlistSlots(word) : i < k /\ Wordlist(lang, i) = word}
    IN  IF at = {} THEN None ELSE Some(CHOOSE i \in at : \A j \in at : j <= i)

InitOnce ==
    /\ layout = "index_of" /\ diagram = Idle /\ fresh = FALSE
    /\ pc = "threads"
    /\ ret = Idle /\ secret = Idle /\ flipat = 0 /\ received = Idle /\ decoded = Idle
    /\ NoEntropyCall
    /\ entropy = Idle /\ mnemonic = Idle /\ phrase = Idle /\ parsed = Idle /\ recovered = Idle
    /\ language \in OnceLanguages
    /\ NoBits
    /\ tpc = [t \in Threads |-> "start"]
    /\ tword \in [Threads -> OnceWords(language)]
    /\ tbuilt = [t \in Threads |-> 0]
    /\ tret = [t \in Threads |-> Idle]
    /\ onceState = "incomplete" /\ dic = 0 /\ builds = 0
    /\ NoPwd
    /\ NoGeneric

\* get_or_init, the fast path: self.get() is Some when the cell is complete
OnceGet(t) ==
    /\ tpc[t] = "start"
    /\ tpc' = [tpc EXCEPT ![t] = IF onceState = "complete" THEN "get" ELSE "initialize"]
    /\ UNCHANGED <<pwdVars, genVars, diagramVars, pc, kdfVars, mnemonicVars, bitsVars,
                   tword, tbuilt, tret, onceState, dic, builds>>

\* get_or_init, the slow path: Once::call_once_force
OnceInitialize(t) ==
    /\ tpc[t] = "initialize"
    /\ IF onceState = "complete"
       THEN /\ tpc' = [tpc EXCEPT ![t] = "get"]
            /\ UNCHANGED <<onceState, builds>>
       ELSE IF MayStartInit(onceState)
       THEN /\ onceState' = "running"
            /\ builds' = builds + 1
            /\ tpc' = [tpc EXCEPT ![t] = "build"]
       ELSE /\ tpc' = [tpc EXCEPT ![t] = "wait"]
            /\ UNCHANGED <<onceState, builds>>
    /\ UNCHANGED <<pwdVars, genVars, diagramVars, pc, kdfVars, mnemonicVars, bitsVars, tword, tbuilt, tret, dic>>

\* the caller that found the cell running is woken when it is complete
OnceWait(t) ==
    /\ tpc[t] = "wait"
    /\ onceState = "complete"
    /\ tpc' = [tpc EXCEPT ![t] = "get"]
    /\ UNCHANGED <<pwdVars, genVars, diagramVars, pc, kdfVars, mnemonicVars, bitsVars,
                   tword, tbuilt, tret, onceState, dic, builds>>

\* the closure: HashMap::from_iter inserts the next entries into its own map
OnceBuild(t) ==
    /\ tpc[t] = "build"
    /\ tbuilt[t] < WordlistLen
    /\ tbuilt' = [tbuilt EXCEPT ![t] = tbuilt[t] + BuildStride]
    /\ UNCHANGED <<pwdVars, genVars, diagramVars, pc, kdfVars, mnemonicVars, bitsVars,
                   tpc, tword, tret, onceState, dic, builds>>

\* the closure has returned: the map is written to the cell, the cell is
\* complete
OnceInstall(t) ==
    /\ tpc[t] = "build"
    /\ tbuilt[t] = WordlistLen
    /\ dic' = tbuilt[t]
    /\ onceState' = "complete"
    /\ tpc' = [tpc EXCEPT ![t] = "get"]
    /\ UNCHANGED <<pwdVars, genVars, diagramVars, pc, kdfVars, mnemonicVars, bitsVars, tword, tbuilt, tret, builds>>

\* debug_assert!(dic.len() == 2048); dic.get(word).copied(), in a build with
\* debug assertions or without
OnceLookup(t) ==
    /\ tpc[t] = "get"
    /\ \E debug \in BOOLEAN :
          tret' = [tret EXCEPT ![t] =
                      IF debug /\ dic # 2048
                      THEN Panic("assertion failed: dic.len() == 2048")
                      ELSE Ok(DicGet(dic, language, tword[t]))]
    /\ tpc' = [tpc EXCEPT ![t] = "done"]
    /\ UNCHANGED <<pwdVars, genVars, diagramVars, pc, kdfVars, mnemonicVars, bitsVars,
                   tword, tbuilt, onceState, dic, builds>>

NextOnce ==
    \E t \in Threads :
        \/ OnceGet(t)
        \/ OnceInitialize(t)
        \/ OnceWait(t)
        \/ OnceBuild(t)
        \/ OnceInstall(t)
        \/ OnceLookup(t)

SpecOnce == InitOnce /\ [][NextOnce]_vars

\* what holds in every state while threads call index_of: the closure was
\* started at most once, a complete cell holds the map of all 2048 entries,
\* and every result is the index the full list gives for the word
OnceTableSafe ==
    layout = "index_of" =>
        /\ builds <= 1
        /\ onceState = "complete" => dic = WordlistLen
        /\ \A t \in Threads :
              tret[t] # Idle => tret[t] = Ok(IndexOf(language, tword[t]))

\* C21: however the threads that call index_of for one language interleave,
\* the map is built and installed at most once, every call returns the lookup
\* in the map of all 2048 entries, and the installed map never changes.
OnceTable ==
    /\ []OnceTableSafe
    /\ [][onceState = "complete" => (onceState' = "complete" /\ dic' = dic)]_vars

\* three threads have returned, one of them after waiting for the thread
\* that built the map; the last word of the list was found at 2047
OnceTableWitness ==
    /\ layout = "index_of"
    /\ \A t \in Threads : tpc[t] = "done"
    /\ builds = 1 /\ dic = WordlistLen
    /\ tbuilt[2] = WordlistLen /\ tbuilt[1] = 0 /\ tbuilt[3] = 0
    /\ tword[1] = Wordlist(language, WordlistLen - 1)
    /\ tret[1] = Ok(Some(WordlistLen - 1))
    /\ tret[3] = Ok(None)

(***************************************************************************)
(* bip85_pwd of bip85.rs: the 64 bytes bip85_derive returns for the path   *)
(* of the password are cut into chunks of password.bits() bits, and the    *)
(* first pwd_len chunks are mapped to chars by Password::char_at.          *)
(***************************************************************************)
LEGACY_BYTES ==
    <<65, 66, 67, 68, 69, 70, 71, 72,
    73, 74, 75, 76, 77, 78, 79, 80,
    81, 82, 83, 84, 85, 86, 87, 88,
    89, 90, 97, 98, 99, 100, 101, 102,
    103, 104, 105, 106, 107, 108, 109, 110,
    111, 112, 113, 114, 115, 116, 117, 118,
    119, 120, 121, 122, 48, 49, 50, 51,
    52, 53, 54, 55, 56, 57, 43, 47>>

DISTINCT_BYTES ==
    <<64, 35, 36, 37, 38, 42, 49, 50,
    51, 52, 53, 54, 55, 56, 57, 65,
    66, 67, 68, 69, 70, 71, 72, 74,
    75, 76, 77, 78, 80, 81, 82, 83,
    84, 85, 86, 87, 88, 89, 90, 97,
    98, 99, 100, 101, 102, 103, 104, 105,
    106, 107, 109, 110, 111, 112, 113, 114,
    115, 116, 117, 118, 119, 120, 121, 122>>

EMOJI_CHARS ==
    <<128522, 128525, 128539, 128557, 128526, 128125, 128128, 128123,
    9995, 128076, 128073, 128077, 10084, 128139, 128591, 128170,
    128053, 128054, 128052, 128055, 128020, 128056, 128013, 128044,
    127803, 127799, 127793, 127796, 127797, 127808, 127812, 127826,
    127828, 127839, 127829, 127846, 127866, 127817, 127820, 127822,
    127968, 9200, 128138, 9749, 128663, 128690, 9992, 128640,
    9728, 127769, 11088, 9889, 9748, 127752, 128293, 128167,
    127876, 127873, 127880, 127881, 128276, 127942, 128274, 128273>>

\* Password::bits with 7 bits for every type
PasswordBitsAllSeven(password) == 7

\* Password::bits
PasswordBits(password) == IF password = "Mixture" THEN 7 ELSE 6

\* Password::char_at; index is counted from 0, an index past the table is a
\* panic of the slice
CharAt(password, index) ==
    CASE password = "Legacy" ->
            IF index < 64 THEN Ok(LEGACY_BYTES[index + 1]) ELSE Panic("index out of bounds")
      [] password = "Distinct" ->
            IF index < 64 THEN Ok(DISTINCT_BYTES[index + 1]) ELSE Panic("index out of bounds")
      [] password = "Emoji" ->
            IF index < 64 THEN Ok(EMOJI_CHARS[index + 1]) ELSE Panic("index out of bounds")
      [] password = "Mixture" ->
            IF (index \div 64) % 2 = 0
            THEN IF index < 64 THEN Ok(DISTINCT_BYTES[index + 1])
                 ELSE Panic("index out of bounds")
            ELSE IF index \div 2 < 64 THEN Ok(EMOJI_CHARS[(index \div 2) + 1])
                 ELSE Panic("index out of bounds")

\* .take(pwd_len).map(|v| password.char_at(v as usize)).collect::<String>()
\* on the values bit_chunks yielded
PwdOfChunks(password, pwd_len, cs) ==
    IF cs.tag # "Ok" THEN cs
    ELSE LET taken == SubSeq(cs.val, 1, IF pwd_len < Len(cs.val) THEN pwd_len ELSE Len(cs.val))
         IN  IF \E k \in 1..Len(taken) : CharAt(password, taken[k]).tag # "Ok"
             THEN Panic("index out of bounds")
             ELSE Ok([k \in 1..Len(taken) |-> CharAt(password, taken[k]).val])

\* bip85_pwd; drv is what bip85_derive returned for the path
Bip85Pwd(password, pwd_len, drv) ==
    IF ~(20 <= pwd_len /\ pwd_len <= 86) THEN Err("InvalidParameter", "20 <= pwd_len <= 86")
    ELSE IF drv.tag # "Ok" THEN drv
    ELSE PwdOfChunks(password, pwd_len, BitChunks(drv.val, PasswordBits(password)))

Passwords == {"Legacy", "Distinct", "Emoji", "Mixture"}

MinPwdLen == 18
MaxPwdLen == 88

\* what bip85_derive returns: 64 bytes of HMAC-SHA512 output
DerivedBytes ==
    {[i \in 1..64 |-> (i * 37 + 11) % 256], [i \in 1..64 |-> 255],
     [i \in 1..64 |-> IF i % 3 = 0 THEN 129 ELSE 36]}

InitPwd ==
    /\ layout = "bip85_pwd" /\ diagram = Idle /\ fresh = FALSE
    /\ pc = "start"
    /\ ret = Idle /\ secret = Idle /\ flipat = 0 /\ received = Idle /\ decoded = Idle
    /\ NoEntropyCall
    /\ NoMnemonic
    /\ NoBits
    /\ NoThreads
    /\ pwdType \in Passwords
    /\ pwdLen \in MinPwdLen..MaxPwdLen
    /\ derived = Idle /\ pwd = Idle
    /\ NoGeneric

\* xpriv.bip85_pwd(password, pwd_len, index): the range test, bip85_derive,
\* the chunks and the chars
Bip85PwdCall ==
    /\ pc = "start"
    /\ \E bs \in DerivedBytes :
          /\ derived' = IF 20 <= pwdLen /\ pwdLen <= 86 THEN Ok(bs) ELSE Idle
          /\ pwd' = Bip85Pwd(pwdType, pwdLen, Ok(bs))
    /\ pc' = "bip85_pwd"
    /\ UNCHANGED <<genVars, diagramVars, kdfVars, mnemonicVars, bitsVars, onceVars, pwdType, pwdLen>>

NextPwd == Bip85PwdCall

SpecPwd == InitPwd /\ [][NextPwd]_vars

\* bit i (from 0) of the bytes read most significant bit first, 0 past the end
PaddedBitAt(bs, i) == IF i < 8 * Len(bs) THEN BitOf(bs[(i \div 8) + 1], 7 - (i % 8)) ELSE 0

\* the number whose binary digits are bits k * n .. k * n + n - 1 of the bytes
ChunkValueAt(bs, n, k) == SumSeq([j \in 1..n |-> PaddedBitAt(bs, k * n + j - 1) * (2^(n - j))])

\* C22: for each Password type and each pwd_len from 20 to 86 bip85_pwd
\* returns pwd_len chars, the chars of the first pwd_len chunks of 6 bits (7
\* for Mixture) of the derived 64 bytes; any other pwd_len is refused with
\* InvalidParameter.
PwdLength ==
    (layout = "bip85_pwd" /\ pc = "bip85_pwd") =>
        IF 20 <= pwdLen /\ pwdLen <= 86
        THEN /\ pwd.tag = "Ok"
             /\ Len(pwd.val) = pwdLen
             /\ \A k \in 1..Len(pwd.val) :
                   Ok(pwd.val[k]) = CharAt(pwdType,
                       ChunkValueAt(derived.val, IF pwdType = "Mixture" THEN 7 ELSE 6, k - 1))
        ELSE pwd = Err("InvalidParameter", "20 <= pwd_len <= 86")

\* C23: the k-th value bit_chunks(n) yields (k from 0) is the number whose
\* binary digits are bits k * n .. k * n + n - 1 of the bytes, read most
\* significant bit first and continued with zero bits after the last byte.
ChunkValues ==
    (layout = "bits" /\ pc = "bit_chunks" /\ width \in 1..16 /\ chunked.tag = "Ok") =>
        \A k \in 1..Len(chunked.val) :
            chunked.val[k] = ChunkValueAt(bytesIn, width, k - 1)

\* four bytes 0xff cut at width 9: three values of nine ones, and a fourth
\* of five ones and four of the zero bits after the end
ChunkValuesWitness ==
    /\ layout = "bits" /\ pc = "bit_chunks"
    /\ bytesIn = <<255, 255, 255, 255>> /\ width = 9
    /\ chunked = Ok(<<511, 511, 511, 496>>)

\* C27: for every width from 1 to 16 and every byte string, those of 0, 1, 2
\* and 3 bytes included, running bit_chunks(n) to its end fails no assertion
\* and makes no shift out of range.
ChunksNoPanic ==
    (layout = "bits" /\ pc = "bit_chunks" /\ width \in 1..16) => chunked.tag # "Panic"

\* the number of cells the indices bytes of the received bytes mark
ReceivedCount == SumSeq([i \in 1..7 |-> SumSeq([b \in 1..7 |-> BitOf(ReceivedIndices[i], b - 1)])])

\* the bytes before the indices bytes
ReceivedBody == SubSeq(received, 1, Len(received) - 8)

\* the length bytes: the last N bytes before the indices bytes
ReceivedLens == SubSeq(ReceivedBody, Len(ReceivedBody) - ReceivedCount + 1, Len(ReceivedBody))

\* the bytes before the length bytes
ReceivedData == SubSeq(ReceivedBody, 1, Len(ReceivedBody) - ReceivedCount)

\* the marked cells in the order the fill loop visits them
ReceivedCells ==
    SelectSeq(DecodeOrder, LAMBDA p : BitOf(ReceivedIndices[p[1] + 1], 6 - p[2]) = 1)

\* C24: of the byte strings with a valid checksum and version,
\* ComplexDiagram::from_secret refuses those that mark no cell, those with a
\* length byte 0 among the N length bytes, and those whose length bytes do
\* not add up to the number of bytes before them; in a diagram it accepts,
\* every marked cell holds the bytes its own length byte counts off.
ComplexLengthField ==
    (/\ layout = "complex" /\ pc = "from_secret" /\ flipat = 0
     /\ Len(received) >= 10
     /\ BitOf(ReceivedIndices[1], 7) = 1
     /\ \A i \in 2..7 : BitOf(ReceivedIndices[i], 7) = 0) =>
        /\ ReceivedCount = 0 => decoded.tag = "Err"
        /\ (ReceivedCount > 0 /\ ReceivedCount <= Len(ReceivedBody)) =>
              /\ (\E i \in 1..ReceivedCount : ReceivedLens[i] = 0) => decoded.tag = "Err"
              /\ SumSeq(ReceivedLens) # Len(ReceivedData) => decoded.tag = "Err"
        /\ decoded.tag = "Ok" =>
              /\ \A j \in 1..ReceivedCount :
                    StrBytes(decoded.val[ReceivedCells[j][1]][ReceivedCells[j][2]])
                        = SubSeq(ReceivedData,
                                 SumSeq(SubSeq(ReceivedLens, 1, ReceivedCount - j)) + 1,
                                 SumSeq(SubSeq(ReceivedLens, 1, ReceivedCount + 1 - j)))
              /\ \A row \in 0..6, col \in 0..6 :
                    BitOf(ReceivedIndices[row + 1], 6 - col) = 0 => decoded.val[row][col] = <<>>

\* three cells were filled from five bytes and the length bytes 1, 3, 1: the
\* first cell visited took the last byte, the second the three bytes of the
\* euro sign, the third the first byte
ComplexLengthFieldWitness ==
    /\ layout = "complex" /\ pc = "from_secret"
    /\ ReceivedBody = <<65, 226, 130, 172, 66, 1, 3, 1>>
    /\ ReceivedCount = 3
    /\ decoded.tag = "Ok"
    /\ decoded.val[0][6] = <<66>> /\ decoded.val[4][6] = <<8364>> /\ decoded.val[6][6] = <<65>>

(***************************************************************************)
(* GenericDiagram<H, W, u8> made from a Vec<Option<u8>> and from the       *)
(* matrix [[Option<u8>; W]; H] (generic.rs).                               *)
(***************************************************************************)
\* Vec::with_capacity(n) followed by fill_with(|| None): the Vec has room
\* for n elements and holds none, and fill_with writes the elements a Vec
\* holds
FilledTail(n) == <<>>

\* iter.take(n)
Take(s, n) == SubSeq(s, 1, IF n < Len(s) THEN n ELSE Len(s))

\* From<Vec<Option<T>>> for GenericDiagram<H, W, T>
GenericFromVec(value, h, w, debug) ==
    LET full    == IF Len(value) < h * w THEN value \o FilledTail(h * w - Len(value)) ELSE value
        indices == BitFrom([i \in 1..Len(Take(full, h * w)) |-> Take(full, h * w)[i] # None], debug)
    IN  IF indices.tag # "Ok" THEN indices
        ELSE Ok([items |-> Concat(Take(full, h * w)), indices |-> indices.val])

\* From<Matrix<H, W, T>> for GenericDiagram<H, W, T>, with the panic of
\* to_bits in a build with overflow checks
GenericFromMatrixIn(matrix, debug) ==
    IF BitFrom([i \in 1..Len(MatrixCells(matrix)) |-> MatrixCells(matrix)[i] # None], debug).tag # "Ok"
    THEN BitFrom([i \in 1..Len(MatrixCells(matrix)) |-> MatrixCells(matrix)[i] # None], debug)
    ELSE Ok(GenericFromMatrix(matrix))

\* the h x w matrix that holds the values row by row, None in the cells
\* after the last value
MatrixOfVec(value, h, w) ==
    [r \in 1..h |-> [c \in 1..w |->
        IF (r - 1) * w + c <= Len(value) THEN value[(r - 1) * w + c] ELSE None]]

\* <<H, W>> of the types converted to
GenericDims == {<<2, 2>>, <<3, 3>>}

\* the Vecs: up to H * W values, each None or Some(5)
GenericVecs(h, w) == UNION {[1..len -> {None, Some(5)}] : len \in 0..(h * w)}

InitGeneric ==
    /\ layout = "generic_from" /\ diagram = Idle /\ fresh = FALSE
    /\ pc = "start"
    /\ ret = Idle /\ secret = Idle /\ flipat = 0 /\ received = Idle /\ decoded = Idle
    /\ NoEntropyCall
    /\ NoMnemonic
    /\ NoBits
    /\ NoThreads
    /\ NoPwd
    /\ genDims \in GenericDims
    /\ genVec \in GenericVecs(genDims[1], genDims[2])
    /\ genOfVec = Idle /\ genOfMatrix = Idle

\* GenericDiagram::<H, W, u8>::from(vec) and ::from(matrix), in one build
GenericFromCall ==
    /\ pc = "start"
    /\ \E debug \in BOOLEAN :
          /\ genOfVec' = GenericFromVec(genVec, genDims[1], genDims[2], debug)
          /\ genOfMatrix' =
                GenericFromMatrixIn(MatrixOfVec(genVec, genDims[1], genDims[2]), debug)
    /\ pc' = "from"
    /\ UNCHANGED <<diagramVars, kdfVars, mnemonicVars, bitsVars, onceVars, pwdVars,
                   genDims, genVec>>

\* rmp_serde::to_vec of both diagrams, the first step of to_entropy
GenericSerializeCall ==
    /\ pc = "from"
    /\ genOfVec.tag = "Ok" /\ genOfMatrix.tag = "Ok"
    /\ secret' = <<RmpToVec(genOfVec.val), RmpToVec(genOfMatrix.val)>>
    /\ pc' = "to_vec"
    /\ UNCHANGED <<layout, diagram, fresh, ret, flipat, received, decoded,
                   kdfVars, mnemonicVars, bitsVars, onceVars, pwdVars, genVars>>

NextGeneric ==
    \/ GenericFromCall
    \/ GenericSerializeCall

SpecGeneric == InitGeneric /\ [][NextGeneric]_vars

\* C25: a Vec<Option<T>> of up to H * W values converts to the same items and
\* indices bytes, and so to the same serialized secret, as the H x W matrix
\* that holds the values row by row with None in the cells after them.
VecAsMatrix ==
    /\ (layout = "generic_from" /\ pc \in {"from", "to_vec"}) => genOfVec = genOfMatrix
    /\ (layout = "generic_from" /\ pc = "to_vec") => secret[1] = secret[2]

\* C26: every ComplexDiagram got from new, set, from_items or from_secret
\* holds in each cell at most 50 chars and fewer than 255 bytes, so the
\* length byte to_secret writes is the cell's byte length. Stated on the
\* diagram from_secret returns.
CellSizeInvariant ==
    (layout = "complex" /\ pc = "from_secret" /\ decoded.tag = "Ok") =>
        \A row \in 0..6, col \in 0..6 :
            /\ Len(decoded.val[row][col]) <= CELL_CHARS_LIMIT
            /\ Len(StrBytes(decoded.val[row][col])) < 255
            /\ StrLenByte(decoded.val[row][col]) = Len(StrBytes(decoded.val[row][col]))

(***************************************************************************)
(* One byte string handed to both decoders: the bytes a caller sealed, or  *)
(* the bytes to_bytes returned for an AnimateDiagram.                      *)
(***************************************************************************)
\* a frame of test_animate: [[Some('X'); 7]; 7]
FrameFull == [row \in 0..6 |-> [col \in 0..6 |-> Some(88)]]

\* the frame lists encoded: one frame of no, one and two cells, two frames,
\* and the cube of test_animate
CrossDiagrams ==
    { <<SimpleNew>>,
      <<SimpleSet(SimpleNew, Some(65), 0, 6)>>,
      <<SimpleSet(SimpleSet(SimpleNew, Some(65), 0, 6), Some(1), 0, 0)>>,
      <<SimpleSet(SimpleNew, Some(29579), 6, 0), SimpleNew>>,
      <<SimpleSet(SimpleNew, Some(65), 0, 6), SimpleSet(SimpleNew, Some(66), 6, 6)>>,
      <<SimpleSet(SimpleNew, Some(88), 3, 3), FrameFull, SimpleSet(SimpleNew, Some(88), 6, 6)>> }

\* the bytes of SpecDecode before their checksum byte is appended, or an
\* AnimateDiagram before to_bytes
InitCross ==
    \/ InitDecode /\ layout = "simple"
    \/ /\ layout = "animate"
       /\ diagram \in CrossDiagrams
       /\ fresh = FALSE
       /\ pc = "set"
       /\ ret = Idle
       /\ secret = Idle
       /\ flipat = 0
       /\ received = Idle
       /\ decoded = Idle
       /\ NoEntropyCall
       /\ NoMnemonic
       /\ NoBits
       /\ NoThreads
       /\ NoPwd
       /\ NoGeneric

\* SimpleDiagram::from_secret(bytes) and ComplexDiagram::from_secret(bytes)
\* on the same bytes
CrossDecodeCall ==
    /\ pc \in {"sealed", "to_bytes"}
    /\ pc = "to_bytes" => secret.tag = "Ok"
    /\ received' = (IF pc = "sealed" THEN received ELSE secret.val)
    /\ decoded' = [simple  |-> SimpleFromSecret(received'),
                   complex |-> ComplexFromSecret(received')]
    /\ pc' = "from_secret_both"
    /\ UNCHANGED <<pwdVars, genVars, bitsVars, onceVars, kdfVars, mnemonicVars, layout, diagram, fresh, ret, secret, flipat>>

NextCross ==
    \/ SealCall
    \/ AnimateToBytesCall
    \/ CrossDecodeCall

SpecCross == InitCross /\ [][NextCross]_vars

\* C28: no byte string is accepted by both SimpleDiagram::from_secret and
\* ComplexDiagram::from_secret: what one of them accepts, and with it what
\* the to_secret of its layout returns, the other refuses with an error;
\* the bytes AnimateDiagram::to_bytes returns are refused with an error by
\* both.
LayoutsExclusive ==
    pc = "from_secret_both" =>
        /\ ~(decoded.simple.tag = "Ok" /\ decoded.complex.tag = "Ok")
        /\ decoded.simple.tag = "Ok" => decoded.complex.tag = "Err"
        /\ decoded.complex.tag = "Ok" => decoded.simple.tag = "Err"
        /\ layout = "animate" =>
               decoded.simple.tag = "Err" /\ decoded.complex.tag = "Err"

\* the ten bytes to_bytes returned for one frame of two cells carry their
\* checksum and were refused by both decoders for their version flags
LayoutsExclusiveWitness ==
    /\ pc = "from_secret_both" /\ layout = "animate"
    /\ Len(diagram) = 1 /\ secret.tag = "Ok"
    /\ Len(received) = 10
    /\ decoded.simple = Err("InvalidVersion", "")
    /\ decoded.complex = Err("InvalidVersion", "")

(***************************************************************************)
(* from_secret on byte strings that end in a checksum byte, and to_secret  *)
(* on the diagram it returned.                                             *)
(***************************************************************************)
\* byte strings as a caller may hold them: chars or chars and length bytes,
\* seven indices bytes with bit 7 set in none, in the first or in the second
\* of them, and the first byte of the SHA-256 of these (in two strings this
\* byte plus one); two strings shorter than any secret
CanonShort == {
    <<65, 0, 0, 0, 0, 0, 0, 0, 20>>,
    <<65, 128, 0, 0, 0, 0, 0, 0, 156>>,
    <<65, 0, 128, 0, 0, 0, 0, 0, 97>>,
    <<65, 1, 0, 0, 0, 0, 0, 0, 72>>,
    <<65, 129, 0, 0, 0, 0, 0, 0, 50>>,
    <<65, 1, 128, 0, 0, 0, 0, 0, 97>>,
    <<65, 64, 0, 0, 0, 0, 0, 2, 225>>,
    <<65, 192, 0, 0, 0, 0, 0, 2, 235>>,
    <<65, 64, 128, 0, 0, 0, 0, 2, 123>>,
    <<65, 1, 0, 0, 0, 1, 0, 1, 174>>,
    <<65, 129, 0, 0, 0, 1, 0, 1, 140>>,
    <<65, 1, 128, 0, 0, 1, 0, 1, 247>>,
    <<65, 66, 1, 0, 0, 0, 0, 0, 0, 142>>,
    <<65, 66, 129, 0, 0, 0, 0, 0, 0, 238>>,
    <<65, 66, 1, 128, 0, 0, 0, 0, 0, 186>>,
    <<65, 66, 64, 0, 0, 0, 0, 0, 2, 56>>,
    <<65, 66, 192, 0, 0, 0, 0, 0, 2, 4>>,
    <<65, 66, 64, 128, 0, 0, 0, 0, 2, 97>>,
    <<65, 66, 1, 0, 0, 0, 1, 0, 1, 11>>,
    <<65, 66, 129, 0, 0, 0, 1, 0, 1, 146>>,
    <<65, 66, 1, 128, 0, 0, 1, 0, 1, 215>>,
    <<65, 66, 67, 64, 0, 0, 0, 0, 0, 2, 14>>,
    <<65, 66, 67, 192, 0, 0, 0, 0, 0, 2, 107>>,
    <<65, 66, 67, 64, 128, 0, 0, 0, 0, 2, 100>>,
    <<65, 66, 67, 1, 0, 0, 0, 1, 0, 1, 108>>,
    <<65, 66, 67, 129, 0, 0, 0, 1, 0, 1, 145>>,
    <<65, 66, 67, 1, 128, 0, 0, 1, 0, 1, 102>>,
    <<226, 130, 172, 0, 0, 0, 0, 0, 0, 0, 106>>,
    <<226, 130, 172, 128, 0, 0, 0, 0, 0, 0, 230>>,
    <<226, 130, 172, 0, 128, 0, 0, 0, 0, 0, 76>>,
    <<226, 130, 172, 1, 0, 0, 0, 0, 0, 0, 50>>,
    <<226, 130, 172, 129, 0, 0, 0, 0, 0, 0, 90>>,
    <<226, 130, 172, 1, 128, 0, 0, 0, 0, 0, 167>>,
    <<226, 130, 172, 1, 0, 0, 0, 1, 0, 1, 105>>,
    <<226, 130, 172, 129, 0, 0, 0, 1, 0, 1, 213>>,
    <<226, 130, 172, 1, 128, 0, 0, 1, 0, 1, 110>>,
    <<195, 169, 231, 142, 139, 240, 159, 152, 138, 1, 0, 0, 0, 1, 0, 1, 165>>,
    <<195, 169, 231, 142, 139, 240, 159, 152, 138, 129, 0, 0, 0, 1, 0, 1, 215>>,
    <<195, 169, 231, 142, 139, 240, 159, 152, 138, 1, 128, 0, 0, 1, 0, 1, 158>>,
    <<195, 169, 231, 142, 139, 240, 159, 152, 138, 64, 0, 0, 0, 0, 0, 2, 255>>,
    <<195, 169, 231, 142, 139, 240, 159, 152, 138, 192, 0, 0, 0, 0, 0, 2, 215>>,
    <<195, 169, 231, 142, 139, 240, 159, 152, 138, 64, 128, 0, 0, 0, 0, 2, 133>>,
    <<192, 128, 1, 0, 0, 0, 0, 0, 0, 128>>,
    <<192, 128, 129, 0, 0, 0, 0, 0, 0, 7>>,
    <<192, 128, 1, 128, 0, 0, 0, 0, 0, 8>>,
    <<192, 128, 64, 0, 0, 0, 0, 0, 2, 194>>,
    <<192, 128, 192, 0, 0, 0, 0, 0, 2, 167>>,
    <<192, 128, 64, 128, 0, 0, 0, 0, 2, 170>>,
    <<237, 160, 128, 1, 0, 0, 0, 0, 0, 0, 83>>,
    <<237, 160, 128, 129, 0, 0, 0, 0, 0, 0, 163>>,
    <<237, 160, 128, 1, 128, 0, 0, 0, 0, 0, 8>>,
    <<128, 1, 0, 0, 0, 0, 0, 0, 243>>,
    <<128, 129, 0, 0, 0, 0, 0, 0, 75>>,
    <<128, 1, 128, 0, 0, 0, 0, 0, 108>>,
    <<255, 1, 1, 0, 0, 0, 0, 0, 0, 127>>,
    <<255, 1, 129, 0, 0, 0, 0, 0, 0, 166>>,
    <<255, 1, 1, 128, 0, 0, 0, 0, 0, 53>>,
    <<0, 1, 0, 0, 0, 0, 0, 0, 46>>,
    <<0, 129, 0, 0, 0, 0, 0, 0, 142>>,
    <<0, 1, 128, 0, 0, 0, 0, 0, 139>>,
    <<65, 1, 129, 0, 0, 0, 0, 0, 0, 8>>,
    <<65, 1, 1, 0, 0, 0, 0, 0, 0, 70>>,
    <<65, 1, 129, 128, 0, 0, 0, 0, 0, 65>>,
    <<65, 1, 192, 0, 0, 0, 0, 0, 2, 152>>,
    <<65, 1, 64, 0, 0, 0, 0, 0, 2, 141>>,
    <<65, 1, 192, 128, 0, 0, 0, 0, 2, 158>>,
    <<65, 1, 129, 0, 0, 0, 1, 0, 1, 155>>,
    <<65, 1, 1, 0, 0, 0, 1, 0, 1, 142>>,
    <<65, 1, 129, 128, 0, 0, 1, 0, 1, 217>>,
    <<65, 1, 128, 0, 0, 0, 0, 0, 0, 206>>,
    <<65, 1, 0, 0, 0, 0, 0, 0, 0, 197>>,
    <<65, 1, 128, 128, 0, 0, 0, 0, 0, 64>>,
    <<65, 66, 67, 1, 1, 1, 129, 0, 0, 0, 1, 0, 1, 158>>,
    <<65, 66, 67, 1, 1, 1, 1, 0, 0, 0, 1, 0, 1, 15>>,
    <<65, 66, 67, 1, 1, 1, 129, 128, 0, 0, 1, 0, 1, 6>>,
    <<65, 66, 67, 1, 1, 1, 192, 0, 0, 0, 0, 0, 2, 17>>,
    <<65, 66, 67, 1, 1, 1, 64, 0, 0, 0, 0, 0, 2, 106>>,
    <<65, 66, 67, 1, 1, 1, 192, 128, 0, 0, 0, 0, 2, 92>>,
    <<65, 66, 67, 68, 1, 1, 2, 129, 0, 0, 0, 1, 0, 1, 205>>,
    <<65, 66, 67, 68, 1, 1, 2, 1, 0, 0, 0, 1, 0, 1, 242>>,
    <<65, 66, 67, 68, 1, 1, 2, 129, 128, 0, 0, 1, 0, 1, 140>>,
    <<65, 226, 130, 172, 66, 1, 3, 1, 129, 0, 0, 0, 1, 0, 1, 228>>,
    <<65, 226, 130, 172, 66, 1, 3, 1, 1, 0, 0, 0, 1, 0, 1, 152>>,
    <<65, 226, 130, 172, 66, 1, 3, 1, 129, 128, 0, 0, 1, 0, 1, 80>>,
    <<65, 226, 130, 172, 66, 1, 2, 2, 129, 0, 0, 0, 1, 0, 1, 58>>,
    <<65, 226, 130, 172, 66, 1, 2, 2, 1, 0, 0, 0, 1, 0, 1, 175>>,
    <<65, 226, 130, 172, 66, 1, 2, 2, 129, 128, 0, 0, 1, 0, 1, 105>>,
    <<65, 66, 67, 2, 0, 1, 129, 0, 0, 0, 1, 0, 1, 57>>,
    <<65, 66, 67, 2, 0, 1, 1, 0, 0, 0, 1, 0, 1, 70>>,
    <<65, 66, 67, 2, 0, 1, 129, 128, 0, 0, 1, 0, 1, 55>>,
    <<65, 66, 67, 1, 1, 2, 129, 0, 0, 0, 1, 0, 1, 248>>,
    <<65, 66, 67, 1, 1, 2, 1, 0, 0, 0, 1, 0, 1, 99>>,
    <<65, 66, 67, 1, 1, 2, 129, 128, 0, 0, 1, 0, 1, 43>>,
    <<65, 0, 129, 0, 0, 0, 0, 0, 0, 59>>,
    <<65, 0, 1, 0, 0, 0, 0, 0, 0, 90>>,
    <<65, 0, 129, 128, 0, 0, 0, 0, 0, 26>>,
    <<65, 66, 1, 129, 0, 0, 0, 0, 0, 0, 33>>,
    <<65, 66, 1, 1, 0, 0, 0, 0, 0, 0, 177>>,
    <<65, 66, 1, 129, 128, 0, 0, 0, 0, 0, 35>>,
    <<226, 130, 172, 3, 129, 0, 0, 0, 0, 0, 0, 241>>,
    <<226, 130, 172, 3, 1, 0, 0, 0, 0, 0, 0, 223>>,
    <<226, 130, 172, 3, 129, 128, 0, 0, 0, 0, 0, 159>>,
    <<65, 66, 2, 129, 0, 0, 0, 0, 0, 0, 249>>,
    <<65, 66, 2, 1, 0, 0, 0, 0, 0, 0, 39>>,
    <<65, 66, 2, 129, 128, 0, 0, 0, 0, 0, 16>>,
    <<65, 1, 0, 0, 0, 0, 0, 0, 73>>,
    <<65, 1, 129, 0, 0, 0, 0, 0, 0, 9>>,
    <<65, 1>>,
    <<1, 0, 0, 0, 0, 0, 0, 132>> }

\* one cell of 51 bytes, one cell of 255 bytes, and one cell of 50 bytes
\* that are 14 chars, each with its length byte, indices and checksum byte
CanonLong ==
    {[i \in 1..60 |-> IF i <= 51 THEN 65 ELSE <<51, 129, 0, 0, 0, 0, 0, 0, 2>>[i - 51]],
     [i \in 1..264 |-> IF i <= 255 THEN 65 ELSE <<255, 129, 0, 0, 0, 0, 0, 0, 177>>[i - 255]],
     [i \in 1..59 |-> IF i <= 48 THEN <<240, 159, 152, 138>>[((i - 1) % 4) + 1]
                      ELSE <<65, 66, 50, 129, 0, 0, 0, 0, 0, 0, 226>>[i - 48]]}

InitCanon ==
    /\ layout \in {"simple", "complex"}
    /\ diagram = Idle /\ fresh = FALSE
    /\ pc = "sealed"
    /\ ret = Idle /\ secret = Idle /\ flipat = 0
    /\ received \in CanonShort \cup CanonLong
    /\ decoded = Idle
    /\ NoEntropyCall
    /\ NoMnemonic
    /\ NoBits
    /\ NoThreads
    /\ NoPwd
    /\ NoGeneric

\* to_secret() on the diagram from_secret returned
EncodeAgainCall ==
    /\ pc = "from_secret"
    /\ decoded.tag = "Ok"
    /\ \E debug \in BOOLEAN :
           secret' = IF layout = "simple" THEN SimpleToSecret(decoded.val)
                     ELSE ComplexToSecret(decoded.val, debug)
    /\ pc' = "to_secret_again"
    /\ UNCHANGED <<pwdVars, genVars, bitsVars, onceVars, kdfVars, mnemonicVars, layout, diagram, fresh, ret, flipat, received, decoded>>

NextCanon ==
    \/ DecodeCall
    \/ EncodeAgainCall

SpecCanon == InitCanon /\ [][NextCanon]_vars

\* C29: for every byte string from_secret (Simple or Complex) accepts, the
\* returned diagram is non-empty, its populated cells are exactly the cells
\* whose indices bits are set in the bytes, and to_secret on it returns
\* exactly these bytes; a Simple string whose number of chars differs from
\* the number of set indices bits is refused.
CanonicalEncoding ==
    /\ (pc \in {"from_secret", "to_secret_again"} /\ decoded.tag = "Ok") =>
          /\ Populated(decoded.val) > 0
          /\ \A row \in 0..6, col \in 0..6 :
                 decoded.val[row][col] # <<>> <=> BitOf(ReceivedIndices[row + 1], 6 - col) = 1
          /\ pc = "to_secret_again" => secret = Ok(received)
    /\ (/\ layout = "simple" /\ pc = "from_secret" /\ Len(received) > 8
        /\ FromUtf8(ReceivedBody).ok
        /\ Len(FromUtf8(ReceivedBody).chars) # ReceivedCount) => decoded.tag = "Err"

(***************************************************************************)
(* Reading the bytes of to_bytes back: 7-byte blocks from the checksum     *)
(* backwards until a block with the end flag, then the chars in the order  *)
(* of the blocks in the bytes.                                             *)
(***************************************************************************)
\* the k-th 7-byte block counted backwards from the checksum byte
BlockFromEnd(b, k) == SubSeq(b, Len(b) - 7 * k, Len(b) - 7 * k + 6)

\* the number of blocks read until the first one with bit 7 of its first
\* byte set; 0 when there is none
RecoveredFrameCount(b) ==
    LET ks == {k \in 1..((Len(b) - 1) \div 7) : BitOf(BlockFromEnd(b, k)[1], 7) = 1}
    IN  IF ks = {} THEN 0 ELSE CHOOSE k \in ks : \A o \in ks : k <= o

\* the number of cells block k from the end marks
BlockCount(b, k) ==
    SumSeq([i \in 1..7 |-> SumSeq([c \in 1..7 |-> BitOf(BlockFromEnd(b, k)[i], c - 1)])])

\* the number of marked cells of block k from the end that come, in the
\* order col 6 -> 0 and row 6 -> 0, no later than (row, col)
BlockRank(b, k, row, col) ==
    Cardinality({q \in 1..((6 - col) * 7 + (6 - row) + 1) :
                     BitOf(BlockFromEnd(b, k)[EncodeOrder[q][1] + 1], 6 - EncodeOrder[q][2]) = 1})

\* the frames read back from the bytes: frame k is block k from the end, and
\* its chars follow those of the frames after it
RecoveredFrames(b) ==
    LET n     == RecoveredFrameCount(b)
        chars == FromUtf8(SubSeq(b, 1, Len(b) - 1 - 7 * n)).chars
    IN  <<>> \o [k \in 1..n |->
            [row \in 0..6 |-> [col \in 0..6 |->
                IF BitOf(BlockFromEnd(b, k)[row + 1], 6 - col) = 1
                THEN Some(chars[SumSeq([j \in 1..(n - k) |-> BlockCount(b, k + j)])
                                + BlockRank(b, k, row, col)])
                ELSE None]]]

\* C30: AnimateDiagram::to_bytes is injective on lists of one or more
\* frames: the number of frames is the number of 7-byte blocks read
\* backwards from the checksum up to the first block with the end flag, and
\* every cell of every frame is read back from the bytes, so two lists that
\* differ in length or in a cell never give the same bytes.
AnimateInjective ==
    (layout = "animate" /\ pc = "to_bytes" /\ Len(diagram) >= 1) =>
        /\ secret.tag = "Ok"
        /\ RecoveredFrameCount(secret.val) = Len(diagram)
        /\ RecoveredFrames(secret.val) = diagram

\* two frames that hold the same char in different cells have been encoded
\* and read back
AnimateInjectiveWitness ==
    /\ layout = "animate" /\ pc = "to_bytes" /\ Len(diagram) = 2
    /\ diagram[1][6][6] = Some(233) /\ diagram[2][0][6] = Some(233)
    /\ secret.tag = "Ok"
    /\ RecoveredFrameCount(secret.val) = 2
    /\ RecoveredFrames(secret.val) = diagram

=============================================================================
